---------------------------- MODULE Spec2Model ----------------------------
(***************************************************************************)
(* ZealFS (V1 and V2) as a state machine over the in-memory image.         *)
(*                                                                         *)
(* The image g_image is modelled byte for byte, the way the C code sees    *)
(* it: a function from byte address to byte value that lists only the      *)
(* non-zero bytes (the buffer comes from calloc, so every byte that was    *)
(* never written is 0).  Header fields, bitmap, FAT, directory entries     *)
(* and page contents are all read and written through their byte offsets, *)
(* so that aliasing between them behaves as in the program.                *)
(*                                                                         *)
(* One action stands for one request of the FUSE layer: the handler and    *)
(* every helper it calls.  A write or read request is open(path) followed  *)
(* by the handler with the handle open returned.                           *)
(***************************************************************************)
EXTENDS Integers, Sequences, FiniteSets, TLC

VARIABLES
    ver,        \* which operation table main selected: 1 (-v1) or 2 (-v2)
    img_size,   \* ctx->size in bytes once image_init is done (common_img_size())
    g_image,    \* the image cache: byte address -> non-zero byte
    ret,        \* outcome of the last request: "OK" or the errno name
    retval,     \* byte count returned by the last read or write
    rdbuf,      \* bytes the last read copied out
    halted,     \* "" while serving; "abort" (assert), "hang" (endless loop)
                \* or "fault" (access outside the image) once the process is lost
    last,       \* the last request: [op, path, buf, off]
    nops,       \* number of requests served
    hist        \* history: the requests made on a file since its creation

vars == <<ver, img_size, g_image, ret, retval, rdbuf, halted, last, nops, hist>>

-----------------------------------------------------------------------------
(* Program constants. *)

IS_DIR == 1
IS_OCCUPIED == 128
NAME_MAX_LEN == 16
ENTRY_SIZE == 32
SLASH == 47
MAGIC == 90

Pow2(n) == 2 ^ n

(* (v >> i) & 1 *)
Bit(v, i) == (v \div Pow2(i)) % 2

(* v | (1 << i) on a byte *)
OrBit(v, i) == IF Bit(v, i) = 1 THEN v ELSE v + Pow2(i)

(* v & ~(1 << i) on a byte *)
ClearBit(v, i) == IF Bit(v, i) = 1 THEN v - Pow2(i) ELSE v

MIN(a, b) == IF a < b THEN a ELSE b

-----------------------------------------------------------------------------
(* The byte buffer. *)

Get(img, a) == IF a \in DOMAIN img THEN img[a] ELSE 0

(* Store the bytes of upd (address -> byte) into img.  The @@ makes TLC *)
(* compute the new buffer at once instead of keeping a chain of updates. *)
Store(img, upd) ==
    LET dom == (DOMAIN img \ DOMAIN upd) \cup {a \in DOMAIN upd : upd[a] # 0}
    IN  [a \in dom |-> IF a \in DOMAIN upd THEN upd[a] ELSE img[a]] @@ <<>>

Put(img, a, v) == Store(img, [x \in {a} |-> v])

(* little-endian 16 and 32 bit fields *)
Get16(img, a) == Get(img, a) + 256 * Get(img, a + 1)
Put16(img, a, v) == Store(img, [x \in {a, a + 1} |->
                                  IF x = a THEN v % 256 ELSE (v \div 256) % 256])
Get32(img, a) == Get16(img, a) + 65536 * Get16(img, a + 2)
Put32(img, a, v) == Put16(Put16(img, a, v % 65536), a + 2, (v \div 65536) % 65536)

memset(img, a, v, n) == Store(img, [x \in a .. (a + n - 1) |-> v])

(* a copy that leaves out the first byte *)
memcpy_img_tail(img, dst, src, n) ==
    Store(img, [x \in (dst + 1) .. (dst + n - 1) |-> Get(img, src + (x - dst))])

(* memcpy between two places of the image *)
memcpy_img(img, dst, src, n) ==
    Store(img, [x \in dst .. (dst + n - 1) |-> Get(img, src + (x - dst))])

(* A caller's buffer of len bytes: byte i is 0 unless i is a multiple of *)
(* gap, and then (base + i / gap) mod 256.  Like the image, a buffer the  *)
(* program fills is kept as the function from index to non-zero byte.    *)
BufByte(buf, i) == IF i % buf.gap = 0 THEN (buf.base + (i \div buf.gap)) % 256 ELSE 0

(* memcpy(dst, buf + off, n) *)
memcpy_in(img, dst, buf, off, n) ==
    Store(img, [x \in dst .. (dst + n - 1) |-> BufByte(buf, off + (x - dst))])

(* memcpy(buf + at, src, n) out of the image *)
memcpy_out(out, at, img, src, n) ==
    Store(out, [x \in at .. (at + n - 1) |-> Get(img, src + (x - at))])

-----------------------------------------------------------------------------
(* C strings: a path or a name is the sequence of its character codes. *)

(* index of the first '/' of s, 0 when there is none (strchr returns NULL) *)
strchr(s) ==
    IF \E k \in 1 .. Len(s) : s[k] = SLASH
    THEN CHOOSE k \in 1 .. Len(s) : s[k] = SLASH /\ \A j \in 1 .. (k - 1) : s[j] # SLASH
    ELSE 0

(* index of the last '/' of s, 0 when there is none *)
strrchr(s) ==
    IF \E k \in 1 .. Len(s) : s[k] = SLASH
    THEN CHOOSE k \in 1 .. Len(s) : s[k] = SLASH /\ \A j \in (k + 1) .. Len(s) : s[j] # SLASH
    ELSE 0

(* basename(3) and dirname(3) of an absolute path without trailing slash *)
basename(path) == SubSeq(path, strrchr(path) + 1, Len(path))

dirname(path) ==
    IF strrchr(path) <= 1 THEN <<SLASH>> ELSE SubSeq(path, 1, strrchr(path) - 1)

(* a comparison that looks at the first character only *)
strncmp_eq_first(img, a, tmp) ==
    Get(img, a) = (IF Len(tmp) > 0 THEN tmp[1] ELSE 0)

(* strncmp(g_image + a, tmp_name, NAME_MAX_LEN) == 0, tmp_name being the *)
(* zero-filled buffer that holds the characters of tmp                    *)
strncmp_eq(img, a, tmp) ==
    LET x(k) == Get(img, a + k)
        y(k) == IF k < Len(tmp) THEN tmp[k + 1] ELSE 0
    IN  \A k \in 0 .. (NAME_MAX_LEN - 1) :
            (\A j \in 0 .. (k - 1) : x(j) # 0 /\ x(j) = y(j)) => x(k) = y(k)

(* the bytes memset(name, 0, 16) followed by a copy of the first n *)
(* characters of s leave in the 16 bytes at a                      *)
name_bytes(a, s, n) ==
    [x \in a .. (a + NAME_MAX_LEN - 1) |-> IF x - a < n THEN s[x - a + 1] ELSE 0]

(* toBCD and fromBCD *)
toBCD(value) == ((value \div 10) % 10) * 16 + (value % 10)
fromBCD(value) == (value \div 16) * 10 + (value % 16)

(* what a handler hands back: the image, the errno name or OK, the count *)
(* returned, the bytes read and whether the process was lost             *)
Res(img, r, n) == [img |-> img, ret |-> r, val |-> n, rd |-> <<>>, halt |-> ""]
Lost(img, how) == [img |-> img, ret |-> "LOST", val |-> 0, rd |-> <<>>, halt |-> how]

-----------------------------------------------------------------------------
(* ZealFS V1: zealfs.h and zealfs_v1.c *)

(* offsets of the fields of ZealFSHeader and ZealFileEntry (packed) *)
v1_bitmap_size == 2
v1_free_pages == 3
v1_pages_bitmap == 4
v1_entries == 64
v1_e_name == 1
v1_e_start_page == 17
v1_e_size == 18
v1_e_year == 20

v1_PAGE == 256
v1_PAYLOAD == 255

v1_ROOT_MAX_ENTRIES == (v1_PAGE - v1_entries) \div ENTRY_SIZE
v1_DIR_MAX_ENTRIES == v1_PAGE \div ENTRY_SIZE

v1_CONTENT_FROM_PAGE(page) == page * v1_PAGE

(* a scan that stops at the highest 0 bit of value instead of the lowest *)
index_0_highest(value, n) ==
    n + (CHOOSE i \in 0 .. 7 : Bit(value, i) = 0 /\ \A j \in (i + 1) .. 7 : Bit(value, j) = 1)

(* index_0: the while loop that looks for the first 0 bit of value *)
RECURSIVE index_0(_, _)
index_0(value, n) ==
    IF value % 2 # 0 THEN index_0(value \div 2, n + 1) ELSE n

(* the for loop of allocatePage: first i < size whose byte is not 0xff *)
RECURSIVE v1_first_not_full(_, _, _)
v1_first_not_full(img, i, size) ==
    IF i < size /\ Get(img, v1_pages_bitmap + i) = 255
    THEN v1_first_not_full(img, i + 1, size)
    ELSE i

v1_allocatePage(img) ==
    LET size == Get(img, v1_bitmap_size)
        i == v1_first_not_full(img, 0, size)
    IN  IF i = size THEN [img |-> img, page |-> 0]
        ELSE LET value == Get(img, v1_pages_bitmap + i)
                 idx == index_0(value, 0)
                 i1 == Put(img, v1_pages_bitmap + i, OrBit(value, idx))
                 i2 == Put(i1, v1_free_pages, (Get(i1, v1_free_pages) + 255) % 256)
             IN  [img |-> i2, page |-> (i * 8 + idx) % 256]

(* freePage without the count: the bit is cleared, free_pages is left alone *)
v1_freePage_bit_only(img, page) ==
    LET a == v1_pages_bitmap + (page \div 8)
    IN  Put(img, a, ClearBit(Get(img, a), page % 8))

v1_freePage(img, page) ==
    LET a == v1_pages_bitmap + (page \div 8)
        i1 == Put(img, a, ClearBit(Get(img, a), page % 8))
    IN  Put(i1, v1_free_pages, (Get(i1, v1_free_pages) + 1) % 256)

(* format, on the zeroed cache *)
v1_format(size) ==
    LET i1 == Put(<<>>, 0, MAGIC)
        i2 == Put(i1, 1, 1)
        i3 == Put(i2, v1_bitmap_size, ((size \div 256) \div 8) % 256)
        i4 == Put(i3, v1_free_pages, ((size \div 256) - 1) % 256)
        i5 == Put(i4, v1_pages_bitmap, 1)
    IN  memset(i5, 36, 0, 28)

(* an update that keeps the first unoccupied slot seen *)
free_slot_first(slash, want, e, free) == IF slash = 0 /\ want /\ free = 0 THEN e ELSE free

(* the update of *free_entry browse_path makes at an unoccupied slot e: *)
(* slash is 0 on the last name of the path, want tells whether the      *)
(* caller passed a pointer, free is what it holds so far                *)
free_slot(slash, want, e, free) == IF slash = 0 /\ want THEN e ELSE free

(* browse_path.  entries is the address of the directory's first entry,   *)
(* want tells whether the caller passed a free_entry pointer and free is  *)
(* what that pointer holds so far (0 for NULL).  The result is the entry  *)
(* address returned (0 when not found), the final *free_entry, and        *)
(* whether a directory outside the image was scanned.                     *)
RECURSIVE v1_browse_path(_, _, _, _, _, _, _)
RECURSIVE v1_browse_loop(_, _, _, _, _, _, _, _)
v1_browse_loop(img, size, path, entries, root, want, free, i) ==
    LET max_entries == IF root THEN v1_ROOT_MAX_ENTRIES ELSE v1_DIR_MAX_ENTRIES
        slash == strchr(path)
        len == IF slash # 0 THEN slash - 1 ELSE Len(path)
        tmp_name == SubSeq(path, 1, len)
        e == entries + i * ENTRY_SIZE
    IN  IF i >= max_entries THEN [entry |-> 0, free |-> free, fault |-> FALSE]
        ELSE IF Get(img, e) \div IS_OCCUPIED = 0
        THEN v1_browse_loop(img, size, path, entries, root, want,
                            free_slot(slash, want, e, free), i + 1)
        ELSE IF strncmp_eq(img, e + v1_e_name, tmp_name)
        THEN IF slash = 0 THEN [entry |-> e, free |-> free, fault |-> FALSE]
             ELSE v1_browse_path(img, size, SubSeq(path, slash + 1, Len(path)),
                                 Get(img, e + v1_e_start_page) * 256, FALSE, want, free)
        ELSE v1_browse_loop(img, size, path, entries, root, want, free, i + 1)

v1_browse_path(img, size, path, entries, root, want, free) ==
    LET slash == strchr(path)
        len == IF slash # 0 THEN slash - 1 ELSE Len(path)
    IN  IF len > NAME_MAX_LEN THEN [entry |-> 0, free |-> free, fault |-> FALSE]
        ELSE IF entries + v1_PAGE > size /\ ~root
        THEN [entry |-> 0, free |-> free, fault |-> TRUE]
        ELSE v1_browse_loop(img, size, path, entries, root, want, free, 0)

(* browse_path(path + 1, header->entries, 1, ...) as every handler calls it *)
v1_lookup(img, size, path, want) ==
    v1_browse_path(img, size, Tail(path), v1_entries, TRUE, want, 0)

(* the eight BCD bytes create stores from localtime *)
timestamp(a, now) ==
    [x \in a .. (a + 7) |->
        CASE x - a = 0 -> toBCD((1900 + now.tm_year) \div 100)
          [] x - a = 1 -> toBCD(now.tm_year)
          [] x - a = 2 -> toBCD(now.tm_mon + 1)
          [] x - a = 3 -> toBCD(now.tm_mday)
          [] x - a = 4 -> toBCD(now.tm_wday)
          [] x - a = 5 -> toBCD(now.tm_hour)
          [] x - a = 6 -> toBCD(now.tm_min)
          [] OTHER     -> toBCD(now.tm_sec)]

v1_zealfs_create_both(img, size, isdir, path, now) ==
    LET b == v1_lookup(img, size, path, TRUE)
        empty == b.free
        filename == basename(path)
        len == Len(filename)
    IN  IF b.fault THEN Lost(img, "fault")
        ELSE IF b.entry # 0 THEN Res(img, "EEXIST", 0)
        ELSE IF empty = 0 THEN Res(img, "ENFILE", 0)
        ELSE IF len > NAME_MAX_LEN THEN Res(img, "ENAMETOOLONG", 0)
        ELSE LET a == v1_allocatePage(img)
                 newp == a.page
             IN  IF newp = 0 THEN Res(a.img, "EFBIG", 0)
                 ELSE IF v1_CONTENT_FROM_PAGE(newp) + v1_PAGE > size
                 THEN Lost(a.img, "fault")
                 ELSE LET i1 == Put(a.img, empty, IS_OCCUPIED + isdir)
                          i2 == Put(i1, empty + v1_e_start_page, newp)
                          i3 == Store(i2, name_bytes(empty + v1_e_name, filename, len))
                          i4 == Put16(i3, empty + v1_e_size, IF isdir = 1 THEN 256 ELSE 0)
                          i5 == Store(i4, timestamp(empty + v1_e_year, now))
                          i6 == memset(i5, v1_CONTENT_FROM_PAGE(newp), 0, 256)
                      IN  Res(i6, "OK", 0)

(* zealfs_open: the handle is the entry's address *)
v1_zealfs_open(img, size, path) ==
    LET b == v1_lookup(img, size, path, FALSE)
    IN  IF path = <<SLASH>> THEN Res(img, "EISDIR", 0)
        ELSE IF b.fault THEN Lost(img, "fault")
        ELSE IF b.entry # 0
        THEN IF Get(img, b.entry) % 2 = 1 THEN Res(img, "ENOTDIR", 0)
             ELSE Res(img, "OK", b.entry)
        ELSE Res(img, "ENOENT", 0)

(* Loops that may run hundreds of times are run in blocks of LoopBlock *)
(* iterations: the result is that of the plain loop, and the depth of  *)
(* the evaluation stays small.                                         *)
LoopBlock == 16

(* one iteration of the page walk of zealfs_unlink, on w = [img, page,   *)
(* seen, halt]; seen is the set of pages already freed: the links are    *)
(* not changed by the walk, so reaching a page of seen again means the   *)
(* loop never ends                                                       *)
v1_unlink_step(w, size) ==
    IF w.page \in w.seen THEN [w EXCEPT !.halt = "hang"]
    ELSE IF v1_CONTENT_FROM_PAGE(w.page) >= size THEN [w EXCEPT !.halt = "fault"]
    ELSE LET i1 == v1_freePage(w.img, w.page)
         IN  [img |-> i1, page |-> Get(i1, v1_CONTENT_FROM_PAGE(w.page)),
              seen |-> w.seen \cup {w.page}, halt |-> ""]

RECURSIVE v1_unlink_block(_, _, _)
v1_unlink_block(w, size, n) ==
    IF n = 0 \/ w.page = 0 \/ w.halt # "" THEN w
    ELSE v1_unlink_block(v1_unlink_step(w, size), size, n - 1)

(* while (page != 0) of zealfs_unlink *)
RECURSIVE v1_unlink_walk(_, _)
v1_unlink_walk(w, size) ==
    IF w.page = 0 \/ w.halt # "" THEN w
    ELSE v1_unlink_walk(v1_unlink_block(w, size, LoopBlock), size)

v1_zealfs_unlink(img, size, path) ==
    LET b == v1_lookup(img, size, path, FALSE)
        entry == b.entry
    IN  IF b.fault THEN Lost(img, "fault")
        ELSE IF entry = 0 THEN Res(img, "ENOENT", 0)
        ELSE IF Get(img, entry) % 2 = 1 THEN Res(img, "EISDIR", 0)
        ELSE LET w == v1_unlink_walk([img |-> img, page |-> Get(img, entry + v1_e_start_page),
                                      seen |-> {}, halt |-> ""], size)
             IN  IF w.halt # "" THEN Lost(w.img, w.halt)
                 ELSE Res(Put(w.img, entry, 0), "OK", 0)

RENAME_NOREPLACE == 1
RENAME_EXCHANGE == 2

v1_zealfs_rename(img, size, from, to, flags) ==
    LET f == v1_lookup(img, size, from, FALSE)
        t == v1_lookup(img, size, to, TRUE)
        fentry == f.entry
        tentry == t.entry
        newname == basename(to)
        len == Len(newname)
        u == IF tentry # 0 THEN v1_zealfs_unlink(img, size, to) ELSE Res(img, "OK", 0)
        free_entry == IF tentry # 0 THEN tentry ELSE t.free
        i1 == Store(u.img, name_bytes(fentry + v1_e_name, newname, MIN(len, NAME_MAX_LEN)))
        same_dir == dirname(from) = dirname(to)
    IN  IF f.fault \/ t.fault THEN Lost(img, "fault")
        ELSE IF fentry = 0 \/ (tentry = 0 /\ flags = RENAME_EXCHANGE) THEN Res(img, "ENOENT", 0)
        ELSE IF flags = RENAME_NOREPLACE /\ tentry # 0 THEN Res(img, "EEXIST", 0)
        ELSE IF flags = RENAME_EXCHANGE THEN Res(img, "EFAULT", 0)
        ELSE IF len > NAME_MAX_LEN THEN Res(img, "ENAMETOOLONG", 0)
        ELSE IF u.halt # "" THEN u
        ELSE IF same_dir THEN Res(i1, "OK", 0)
        ELSE IF free_entry = 0 THEN Res(i1, "ENOMEM", 0)
        ELSE Res(memset(memcpy_img(i1, free_entry, fentry, ENTRY_SIZE),
                        fentry, 0, ENTRY_SIZE), "OK", 0)

v1_zealfs_rmdir(img, size, path) ==
    LET b == v1_lookup(img, size, path, FALSE)
        entry == b.entry
        entries == v1_CONTENT_FROM_PAGE(Get(img, entry + v1_e_start_page))
    IN  IF path = <<SLASH>> THEN Res(img, "EACCES", 0)
        ELSE IF b.fault THEN Lost(img, "fault")
        ELSE IF entry = 0 THEN Res(img, "ENOENT", 0)
        ELSE IF Get(img, entry) % 2 = 0 THEN Res(img, "ENOTDIR", 0)
        ELSE IF entries + v1_PAGE > size THEN Lost(img, "fault")
        ELSE IF \E i \in 0 .. (v1_DIR_MAX_ENTRIES - 1) :
                    Get(img, entries + i * ENTRY_SIZE) \div IS_OCCUPIED # 0
        THEN Res(img, "ENOTEMPTY", 0)
        ELSE Res(Put(img, entry, 0), "OK", 0)

(* the loop that follows jump_pages links from page: the address reached,   *)
(* or -1 when a byte outside the image is read on the way                   *)
RECURSIVE v1_jump_block(_, _, _, _)
v1_jump_block(img, size, page, n) ==
    IF n = 0 \/ page < 0 THEN page
    ELSE IF page >= size THEN -1
    ELSE v1_jump_block(img, size, v1_CONTENT_FROM_PAGE(Get(img, page)), n - 1)

RECURSIVE v1_jump(_, _, _, _)
v1_jump(img, size, page, jump_pages) ==
    IF jump_pages = 0 \/ page < 0 THEN page
    ELSE LET n == IF jump_pages < LoopBlock THEN jump_pages ELSE LoopBlock
         IN  v1_jump(img, size, v1_jump_block(img, size, page, n), jump_pages - n)

(* the copy loop of zealfs_read; out collects the bytes copied to buf *)
RECURSIVE v1_read_loop(_, _, _, _, _, _, _)
v1_read_loop(img, size, page, offset_in_page, done, left, out) ==
    IF left = 0 THEN [rd |-> out, halt |-> ""]
    ELSE IF page < 0 \/ page + v1_PAGE > size THEN [rd |-> out, halt |-> "fault"]
    ELSE LET count == MIN(v1_PAYLOAD - offset_in_page, left)
             got == memcpy_out(out, done, img, page + 1 + offset_in_page, count)
             nxt == IF left # count THEN v1_CONTENT_FROM_PAGE(Get(img, page)) ELSE page
         IN  v1_read_loop(img, size, nxt, 0, done + count, left - count, got)

v1_zealfs_read(img, size, entry, rsize, offset) ==
    LET jump_pages == offset \div v1_PAYLOAD
        offset_in_page == offset % v1_PAYLOAD
        n == MIN(rsize, Get16(img, entry + v1_e_size))
        page == v1_jump(img, size, v1_CONTENT_FROM_PAGE(Get(img, entry + v1_e_start_page)),
                        jump_pages)
        r == v1_read_loop(img, size, page, offset_in_page, 0, n, <<>>)
    IN  IF r.halt # "" THEN Lost(img, r.halt)
        ELSE [img |-> img, ret |-> "OK", val |-> n, rd |-> r.rd, halt |-> ""]

(* one iteration of the copy loop of zealfs_write, on the loop's variables *)
(* w: page is the address of the page written, done the number of bytes of *)
(* buf already stored, left the size remaining                             *)
v1_write_step(w, size, entry, buf) ==
    IF w.page < 0 \/ w.page + v1_PAGE > size THEN [w EXCEPT !.halt = "fault"]
    ELSE LET count == MIN(v1_PAYLOAD - w.offset_in_page, w.left)
             i1 == memcpy_in(w.img, w.page + 1 + w.offset_in_page, buf, w.done, count)
             i2 == Put16(i1, entry + v1_e_size,
                         (Get16(i1, entry + v1_e_size) + count) % 65536)
             rest == w.left - count
             next == Get(i2, w.page)
             a == v1_allocatePage(i2)
             on == [w EXCEPT !.img = i2, !.offset_in_page = 0, !.done = w.done + count,
                             !.left = rest]
         IN  IF next # 0 THEN [on EXCEPT !.page = v1_CONTENT_FROM_PAGE(next)]
             ELSE IF rest = 0 THEN on
             ELSE IF a.page = 0 THEN [on EXCEPT !.img = a.img, !.halt = "abort"]
             ELSE [on EXCEPT !.img = Put(a.img, w.page, a.page),
                             !.page = v1_CONTENT_FROM_PAGE(a.page)]

RECURSIVE v1_write_block(_, _, _, _, _)
v1_write_block(w, size, entry, buf, n) ==
    IF n = 0 \/ w.left = 0 \/ w.halt # "" THEN w
    ELSE v1_write_block(v1_write_step(w, size, entry, buf), size, entry, buf, n - 1)

(* while (size) of zealfs_write *)
RECURSIVE v1_write_loop(_, _, _, _)
v1_write_loop(w, size, entry, buf) ==
    IF w.left = 0 \/ w.halt # "" THEN w
    ELSE v1_write_loop(v1_write_block(w, size, entry, buf, LoopBlock), size, entry, buf)

v1_zealfs_write(img, size, entry, buf, offset) ==
    LET jump_pages == offset \div v1_PAYLOAD
        offset_in_page == offset % v1_PAYLOAD
        remaining_in_page == v1_PAYLOAD - offset_in_page
        page == v1_jump(img, size, v1_CONTENT_FROM_PAGE(Get(img, entry + v1_e_start_page)),
                        jump_pages)
        w == v1_write_loop([img |-> img, page |-> page, offset_in_page |-> offset_in_page,
                            done |-> 0, left |-> buf.len, halt |-> ""],
                           size, entry, buf)
    IN  IF Get(img, v1_free_pages) * v1_PAYLOAD + remaining_in_page < buf.len
        THEN Res(img, "EFBIG", 0)
        ELSE IF w.halt # "" THEN Lost(w.img, w.halt)
        ELSE Res(w.img, "OK", buf.len)

(* __builtin_popcount of a byte *)
popcount(map) == Cardinality({i \in 0 .. 7 : Bit(map, i) = 1})

(* the count check_integrity makes of the 0 bits of the bitmap bytes i to *)
(* n - 1: the sum of the loop, taken by halves so that a bitmap of        *)
(* thousands of bytes is summed in a shallow evaluation                   *)
RECURSIVE v1_count_free(_, _, _)
v1_count_free(img, i, n) ==
    IF i >= n THEN 0
    ELSE IF n = i + 1 THEN 8 - popcount(Get(img, v1_pages_bitmap + i))
    ELSE LET mid == (i + n) \div 2
         IN  v1_count_free(img, i, mid) + v1_count_free(img, mid, n)

(* check_integrity: 0 on success, 1 on error *)
v1_check_integrity(img, requested_size) ==
    LET image_size == Get(img, v1_bitmap_size) * 8 * 256
        count == v1_count_free(img, 0, Get(img, v1_bitmap_size))
    IN  IF Get(img, 0) # MAGIC THEN 1
        ELSE IF Get(img, v1_bitmap_size) = 0 THEN 1
        ELSE IF image_size > requested_size THEN 1
        ELSE IF count > Get(img, v1_free_pages) THEN 1
        ELSE 0

-----------------------------------------------------------------------------
(* ZealFS V2: zealfs_v2.h and zealfs_v2.c *)

(* offsets of the fields of ZealFSHeader and ZealFileEntry (packed) *)
v2_bitmap_size == 2
v2_free_pages == 4
v2_page_size == 6
v2_pages_bitmap == 7
v2_e_name == 1
v2_e_start_page == 17
v2_e_size == 19
v2_e_year == 23

KB(x) == x * 1024
MB(x) == KB(x) * 1024
GB(x) == MB(x) * 1024

ALIGN_UP(size, bound) == ((size + bound - 1) \div bound) * bound

v2_getFSHeaderSize(img) == ALIGN_UP(v2_pages_bitmap + Get16(img, v2_bitmap_size), ENTRY_SIZE)

(* getPageSize; the assert on the code is v2_bad_page_size *)
v2_getPageSize(img) == 256 * Pow2(Get(img, v2_page_size))
v2_bad_page_size(img) == Get(img, v2_page_size) > 8

v2_getRootDirEntries(img) == v2_getFSHeaderSize(img)

v2_getRootDirMaxEntries(img) ==
    ((v2_getPageSize(img) - v2_getFSHeaderSize(img)) \div ENTRY_SIZE) % 65536

v2_getDirMaxEntries(img) == (v2_getPageSize(img) \div ENTRY_SIZE) % 65536

v2_CONTENT_FROM_PAGE(img, page) == page * v2_getPageSize(img)

(* the FAT starts at page 1 *)
v2_fat_slot(img, current_page) == v2_getPageSize(img) + 2 * current_page
v2_getNextFromFat(img, current_page) == Get16(img, v2_fat_slot(img, current_page))
v2_setNextInFat(img, current_page, next_page) ==
    Put16(img, v2_fat_slot(img, current_page), next_page)

RECURSIVE v2_first_not_full(_, _, _)
v2_first_not_full(img, i, size) ==
    IF i < size /\ Get(img, v2_pages_bitmap + i) = 255
    THEN v2_first_not_full(img, i + 1, size)
    ELSE i

v2_allocatePage(img) ==
    LET size == Get16(img, v2_bitmap_size)
        i == v2_first_not_full(img, 0, size)
    IN  IF i = size THEN [img |-> img, page |-> 0]
        ELSE LET value == Get(img, v2_pages_bitmap + i)
                 idx == index_0(value, 0)
                 i1 == Put(img, v2_pages_bitmap + i, OrBit(value, idx))
                 i2 == Put16(i1, v2_free_pages, (Get16(i1, v2_free_pages) + 65535) % 65536)
             IN  [img |-> i2, page |-> (i * 8 + idx) % 65536]

v2_freePage(img, page) ==
    LET a == v2_pages_bitmap + (page \div 8)
        i1 == Put(img, a, ClearBit(Get(img, a), page % 8))
    IN  Put16(i1, v2_free_pages, (Get16(i1, v2_free_pages) + 1) % 65536)

(* a step table whose first step ends at 128 KB *)
pageSizeFromDiskSize_late(disk_size) ==
    IF disk_size <= KB(128) THEN 256
    ELSE IF disk_size <= KB(256) THEN 512
    ELSE IF disk_size <= MB(1) THEN KB(1)
    ELSE IF disk_size <= MB(4) THEN KB(2)
    ELSE IF disk_size <= MB(16) THEN KB(4)
    ELSE IF disk_size <= MB(64) THEN KB(8)
    ELSE IF disk_size <= MB(256) THEN KB(16)
    ELSE IF disk_size <= GB(1) THEN KB(32)
    ELSE KB(64)

pageSizeFromDiskSize(disk_size) ==
    IF disk_size <= KB(64) THEN 256
    ELSE IF disk_size <= KB(256) THEN 512
    ELSE IF disk_size <= MB(1) THEN KB(1)
    ELSE IF disk_size <= MB(4) THEN KB(2)
    ELSE IF disk_size <= MB(16) THEN KB(4)
    ELSE IF disk_size <= MB(64) THEN KB(8)
    ELSE IF disk_size <= MB(256) THEN KB(16)
    ELSE IF disk_size <= GB(1) THEN KB(32)
    ELSE KB(64)

(* 31 - __builtin_clz(x) for x > 0: the index of the highest 1 bit *)
RECURSIVE highest_bit(_)
highest_bit(x) == IF x <= 1 THEN 0 ELSE 1 + highest_bit(x \div 2)

(* Above 1 GB pageSizeFromDiskSize returns 65536, which the 16-bit        *)
(* page_size_bytes of format holds as 0.  __builtin_clz(0) and the        *)
(* division by 0 that follow are undefined: ub is what they do.  clz     *)
(* gives any count from 0 to 32 (32 where the instruction counts the     *)
(* zeros of 0, whatever the destination held where it is a bit scan).    *)
(* The division raises SIGFPE where the processor traps and gives 0      *)
(* where it does not.                                                    *)
ClzOfZero == 0 .. 32
UB == [clz : ClzOfZero, div : {"SIGFPE", "zero"}]

(* for the calls that do not format an image of more than 1 GB, where *)
(* nothing undefined is evaluated                                     *)
NoUB == [clz |-> 32, div |-> "SIGFPE"]

(* format, on the zeroed cache: the image, and whether the process was *)
(* killed by SIGFPE before the header was complete                     *)
v2_format(size, ub) ==
    LET page_size_bytes == pageSizeFromDiskSize(size) % 65536
        clz == IF page_size_bytes \div 256 = 0 THEN ub.clz
               ELSE 31 - highest_bit(page_size_bytes \div 256)
        code == (32 - clz) - 1
        pages == IF page_size_bytes = 0 THEN 0 ELSE size \div page_size_bytes
        fat_pages_count == 1 + (IF code % 256 = 256 THEN 0 ELSE 1)
        i1 == Put(<<>>, 0, MAGIC)
        i2 == Put(i1, 1, 2)
        i3 == Put(i2, v2_page_size, code % 256)
        i4 == Put16(i3, v2_bitmap_size, (pages \div 8) % 65536)
        i5 == Put16(i4, v2_free_pages, (pages - 1 - fat_pages_count) % 65536)
    IN  IF page_size_bytes = 0 /\ ub.div = "SIGFPE" THEN [trap |-> TRUE, img |-> i3]
        ELSE [trap |-> FALSE,
              img |-> Put(i5, v2_pages_bitmap, 3 + (IF fat_pages_count > 1 THEN 4 ELSE 0))]

RECURSIVE v2_count_free(_, _, _)
v2_count_free(img, i, n) ==
    IF i >= n THEN 0
    ELSE IF n = i + 1 THEN 8 - popcount(Get(img, v2_pages_bitmap + i))
    ELSE LET mid == (i + n) \div 2
         IN  v2_count_free(img, i, mid) + v2_count_free(img, mid, n)

v2_check_integrity(img, requested_size) ==
    LET image_size == Get16(img, v2_bitmap_size) * 8 * v2_getPageSize(img)
        count == v2_count_free(img, 0, Get16(img, v2_bitmap_size))
    IN  IF Get(img, 0) # MAGIC THEN 1
        ELSE IF Get16(img, v2_bitmap_size) = 0 THEN 1
        ELSE IF image_size > requested_size THEN 1
        ELSE IF count > Get16(img, v2_free_pages) THEN 1
        ELSE 0

RECURSIVE v2_browse_path(_, _, _, _, _, _, _)
RECURSIVE v2_browse_loop(_, _, _, _, _, _, _, _)
v2_browse_loop(img, size, path, entries, root, want, free, i) ==
    LET max_entries == IF root THEN v2_getRootDirMaxEntries(img)
                       ELSE v2_getDirMaxEntries(img)
        slash == strchr(path)
        len == IF slash # 0 THEN slash - 1 ELSE Len(path)
        tmp_name == SubSeq(path, 1, len)
        e == entries + i * ENTRY_SIZE
    IN  IF i >= max_entries THEN [entry |-> 0, free |-> free, fault |-> FALSE]
        ELSE IF Get(img, e) \div IS_OCCUPIED = 0
        THEN v2_browse_loop(img, size, path, entries, root, want,
                            free_slot(slash, want, e, free), i + 1)
        ELSE IF strncmp_eq(img, e + v2_e_name, tmp_name)
        THEN IF slash = 0 THEN [entry |-> e, free |-> free, fault |-> FALSE]
             ELSE v2_browse_path(img, size, SubSeq(path, slash + 1, Len(path)),
                                 v2_CONTENT_FROM_PAGE(img, Get16(img, e + v2_e_start_page)),
                                 FALSE, want, free)
        ELSE v2_browse_loop(img, size, path, entries, root, want, free, i + 1)

v2_browse_path(img, size, path, entries, root, want, free) ==
    LET slash == strchr(path)
        len == IF slash # 0 THEN slash - 1 ELSE Len(path)
    IN  IF len > NAME_MAX_LEN THEN [entry |-> 0, free |-> free, fault |-> FALSE]
        ELSE IF entries + v2_getPageSize(img) > size /\ ~root
        THEN [entry |-> 0, free |-> free, fault |-> TRUE]
        ELSE v2_browse_loop(img, size, path, entries, root, want, free, 0)

v2_lookup(img, size, path, want) ==
    v2_browse_path(img, size, Tail(path), v2_getRootDirEntries(img), TRUE, want, 0)

v2_zealfs_create_both(img, size, isdir, path, now) ==
    LET b == v2_lookup(img, size, path, TRUE)
        empty == b.free
        filename == basename(path)
        len == Len(filename)
    IN  IF v2_bad_page_size(img) THEN Lost(img, "abort")
        ELSE IF b.fault THEN Lost(img, "fault")
        ELSE IF b.entry # 0 THEN Res(img, "EEXIST", 0)
        ELSE IF empty = 0 THEN Res(img, "ENFILE", 0)
        ELSE IF len > NAME_MAX_LEN THEN Res(img, "ENAMETOOLONG", 0)
        ELSE LET a == v2_allocatePage(img)
                 newp == a.page % 256
             IN  IF newp = 0 THEN Res(a.img, "EFBIG", 0)
                 ELSE IF v2_CONTENT_FROM_PAGE(a.img, newp) + 256 > size
                 THEN Lost(a.img, "fault")
                 ELSE LET i1 == Put(a.img, empty, IS_OCCUPIED + isdir)
                          i2 == Put16(i1, empty + v2_e_start_page, newp)
                          i3 == Store(i2, name_bytes(empty + v2_e_name, filename, len))
                          i4 == Put32(i3, empty + v2_e_size, IF isdir = 1 THEN 256 ELSE 0)
                          i5 == Store(i4, timestamp(empty + v2_e_year, now))
                          i6 == memset(i5, v2_CONTENT_FROM_PAGE(i5, newp), 0, 256)
                      IN  Res(i6, "OK", 0)

v2_zealfs_open(img, size, path) ==
    LET b == v2_lookup(img, size, path, FALSE)
    IN  IF path = <<SLASH>> THEN Res(img, "EISDIR", 0)
        ELSE IF v2_bad_page_size(img) THEN Lost(img, "abort")
        ELSE IF b.fault THEN Lost(img, "fault")
        ELSE IF b.entry # 0
        THEN IF Get(img, b.entry) % 2 = 1 THEN Res(img, "ENOTDIR", 0)
             ELSE Res(img, "OK", b.entry)
        ELSE Res(img, "ENOENT", 0)

(* one iteration of the page walk of zealfs_unlink, on w = [img, page, *)
(* halt]: it stores 0 in the FAT slot it has read                      *)
v2_unlink_step(w, size) ==
    IF v2_bad_page_size(w.img) THEN [w EXCEPT !.halt = "abort"]
    ELSE IF v2_fat_slot(w.img, w.page) + 2 > size
            \/ v2_pages_bitmap + (w.page \div 8) >= size
    THEN [w EXCEPT !.halt = "fault"]
    ELSE LET i1 == v2_freePage(w.img, w.page)
             next == v2_getNextFromFat(i1, w.page)
         IN  [img |-> v2_setNextInFat(i1, w.page, 0), page |-> next, halt |-> ""]

RECURSIVE v2_unlink_block(_, _, _)
v2_unlink_block(w, size, n) ==
    IF n = 0 \/ w.page = 0 \/ w.halt # "" THEN w
    ELSE v2_unlink_block(v2_unlink_step(w, size), size, n - 1)

(* while (page != 0) of zealfs_unlink *)
RECURSIVE v2_unlink_walk(_, _)
v2_unlink_walk(w, size) ==
    IF w.page = 0 \/ w.halt # "" THEN w
    ELSE v2_unlink_walk(v2_unlink_block(w, size, LoopBlock), size)

v2_zealfs_unlink(img, size, path) ==
    LET b == v2_lookup(img, size, path, FALSE)
        entry == b.entry
    IN  IF v2_bad_page_size(img) THEN Lost(img, "abort")
        ELSE IF b.fault THEN Lost(img, "fault")
        ELSE IF entry = 0 THEN Res(img, "ENOENT", 0)
        ELSE IF Get(img, entry) % 2 = 1 THEN Res(img, "EISDIR", 0)
        ELSE LET w == v2_unlink_walk([img |-> img, halt |-> "",
                                      page |-> Get16(img, entry + v2_e_start_page)], size)
             IN  IF w.halt # "" THEN Lost(w.img, w.halt)
                 ELSE Res(Put(w.img, entry, 0), "OK", 0)

v2_zealfs_rename(img, size, from, to, flags) ==
    LET f == v2_lookup(img, size, from, FALSE)
        t == v2_lookup(img, size, to, TRUE)
        fentry == f.entry
        tentry == t.entry
        newname == basename(to)
        len == Len(newname)
        u == IF tentry # 0 THEN v2_zealfs_unlink(img, size, to) ELSE Res(img, "OK", 0)
        free_entry == IF tentry # 0 THEN tentry ELSE t.free
        i1 == Store(u.img, name_bytes(fentry + v2_e_name, newname, MIN(len, NAME_MAX_LEN)))
        same_dir == dirname(from) = dirname(to)
    IN  IF v2_bad_page_size(img) THEN Lost(img, "abort")
        ELSE IF f.fault \/ t.fault THEN Lost(img, "fault")
        ELSE IF fentry = 0 \/ (tentry = 0 /\ flags = RENAME_EXCHANGE) THEN Res(img, "ENOENT", 0)
        ELSE IF flags = RENAME_NOREPLACE /\ tentry # 0 THEN Res(img, "EEXIST", 0)
        ELSE IF flags = RENAME_EXCHANGE THEN Res(img, "EFAULT", 0)
        ELSE IF len > NAME_MAX_LEN THEN Res(img, "ENAMETOOLONG", 0)
        ELSE IF u.halt # "" THEN u
        ELSE IF same_dir THEN Res(i1, "OK", 0)
        ELSE IF free_entry = 0 THEN Res(i1, "ENOMEM", 0)
        ELSE Res(memset(memcpy_img(i1, free_entry, fentry, ENTRY_SIZE),
                        fentry, 0, ENTRY_SIZE), "OK", 0)

v2_zealfs_rmdir(img, size, path) ==
    LET b == v2_lookup(img, size, path, FALSE)
        entry == b.entry
        entries == v2_CONTENT_FROM_PAGE(img, Get16(img, entry + v2_e_start_page))
    IN  IF path = <<SLASH>> THEN Res(img, "EACCES", 0)
        ELSE IF v2_bad_page_size(img) THEN Lost(img, "abort")
        ELSE IF b.fault THEN Lost(img, "fault")
        ELSE IF entry = 0 THEN Res(img, "ENOENT", 0)
        ELSE IF Get(img, entry) % 2 = 0 THEN Res(img, "ENOTDIR", 0)
        ELSE IF entries + v2_getPageSize(img) > size THEN Lost(img, "fault")
        ELSE IF \E i \in 0 .. (v2_getDirMaxEntries(img) - 1) :
                    Get(img, entries + i * ENTRY_SIZE) \div IS_OCCUPIED # 0
        THEN Res(img, "ENOTEMPTY", 0)
        ELSE Res(Put(img, entry, 0), "OK", 0)

(* the loop of zealfs_read that follows jump_pages FAT links: the page *)
(* reached, or -1 when a slot outside the image is read on the way     *)
RECURSIVE v2_read_jump(_, _, _, _)
v2_read_jump(img, size, current_page, jump_pages) ==
    IF jump_pages = 0 THEN current_page
    ELSE IF v2_fat_slot(img, current_page) + 2 > size THEN -1
    ELSE v2_read_jump(img, size, v2_getNextFromFat(img, current_page), jump_pages - 1)

RECURSIVE v2_read_loop(_, _, _, _, _, _, _)
v2_read_loop(img, size, current_page, offset_in_page, done, left, out) ==
    LET data_bytes_per_page == v2_getPageSize(img)
        page == v2_CONTENT_FROM_PAGE(img, current_page)
        count == MIN(data_bytes_per_page - offset_in_page, left)
    IN  IF left = 0 THEN [rd |-> out, halt |-> ""]
        ELSE IF current_page < 0 \/ page + data_bytes_per_page > size
                \/ (left # count /\ v2_fat_slot(img, current_page) + 2 > size)
        THEN [rd |-> out, halt |-> "fault"]
        ELSE LET got == memcpy_out(out, done, img, page + offset_in_page, count)
                 nxt == IF left # count THEN v2_getNextFromFat(img, current_page)
                        ELSE current_page
             IN  v2_read_loop(img, size, nxt, 0, done + count, left - count, got)

v2_zealfs_read(img, size, entry, rsize, offset) ==
    LET data_bytes_per_page == v2_getPageSize(img)
        jump_pages == offset \div data_bytes_per_page
        offset_in_page == offset % data_bytes_per_page
        n == MIN(rsize, Get32(img, entry + v2_e_size))
        current_page == v2_read_jump(img, size, Get16(img, entry + v2_e_start_page),
                                     jump_pages)
        r == v2_read_loop(img, size, current_page, offset_in_page, 0, n, <<>>)
    IN  IF v2_bad_page_size(img) THEN Lost(img, "abort")
        ELSE IF r.halt # "" THEN Lost(img, r.halt)
        ELSE [img |-> img, ret |-> "OK", val |-> n, rd |-> r.rd, halt |-> ""]

(* the loop of zealfs_write that walks jump_pages pages: it takes the first *)
(* byte of each page as the number of the next one                          *)
RECURSIVE v2_write_jump(_, _, _, _)
v2_write_jump(img, size, page, jump_pages) ==
    IF jump_pages = 0 THEN page
    ELSE IF page < 0 \/ page >= size THEN -1
    ELSE v2_write_jump(img, size, v2_CONTENT_FROM_PAGE(img, Get(img, page)), jump_pages - 1)

(* one iteration of the copy loop of zealfs_write, on the loop's variables *)
(* w: page is the address data goes to, current_page the page whose FAT    *)
(* slot is read, done the bytes of buf consumed, left the size remaining;  *)
(* ret is "" until the handler returns.  data_bytes_per_page was read      *)
(* once, before the loop.                                                  *)
v2_write_step(w, size, entry, buf, data_bytes_per_page) ==
    IF w.page < 0 \/ w.page + data_bytes_per_page > size
    THEN [w EXCEPT !.ret = "LOST", !.halt = "fault"]
    ELSE LET count == MIN(data_bytes_per_page - w.offset_in_page, w.left)
             i1 == memcpy_in(w.img, w.page + w.offset_in_page, buf, w.done, count)
             i2 == Put32(i1, entry + v2_e_size,
                         Get32(i1, entry + v2_e_size) + (count % 65536))
             rest == w.left - count
             next == v2_getNextFromFat(i2, w.current_page)
             a == v2_allocatePage(i2)
             i3 == v2_setNextInFat(a.img, w.current_page, a.page)
             on == [w EXCEPT !.img = i2, !.offset_in_page = 0, !.done = w.done + count,
                             !.left = rest]
         IN  IF v2_bad_page_size(i2) THEN [on EXCEPT !.ret = "LOST", !.halt = "abort"]
             ELSE IF v2_fat_slot(i2, w.current_page) + 2 > size
             THEN [on EXCEPT !.ret = "LOST", !.halt = "fault"]
             ELSE IF next # 0 THEN [on EXCEPT !.current_page = next]
             ELSE IF rest = 0 THEN on
             ELSE IF a.page = 0 THEN [on EXCEPT !.img = a.img, !.ret = "ENOSPC"]
             ELSE IF v2_bad_page_size(i3)
             THEN [on EXCEPT !.img = i3, !.ret = "LOST", !.halt = "abort"]
             ELSE [on EXCEPT !.img = i3, !.current_page = a.page,
                             !.page = v2_CONTENT_FROM_PAGE(i3, a.page)]

RECURSIVE v2_write_block(_, _, _, _, _, _)
v2_write_block(w, size, entry, buf, data_bytes_per_page, n) ==
    IF n = 0 \/ w.left = 0 \/ w.ret # "" THEN w
    ELSE v2_write_block(v2_write_step(w, size, entry, buf, data_bytes_per_page),
                        size, entry, buf, data_bytes_per_page, n - 1)

(* while (size) of zealfs_write *)
RECURSIVE v2_write_loop(_, _, _, _, _)
v2_write_loop(w, size, entry, buf, data_bytes_per_page) ==
    IF w.ret # "" THEN w
    ELSE IF w.left = 0 THEN [w EXCEPT !.ret = "OK"]
    ELSE v2_write_loop(v2_write_block(w, size, entry, buf, data_bytes_per_page, LoopBlock),
                       size, entry, buf, data_bytes_per_page)

v2_zealfs_write(img, size, entry, buf, offset) ==
    LET data_bytes_per_page == v2_getPageSize(img)
        jump_pages == offset \div data_bytes_per_page
        offset_in_page == offset % data_bytes_per_page
        remaining_in_page == data_bytes_per_page - offset_in_page
        start_page == Get16(img, entry + v2_e_start_page)
        page == v2_write_jump(img, size, v2_CONTENT_FROM_PAGE(img, start_page), jump_pages)
        w == v2_write_loop([img |-> img, page |-> page, current_page |-> start_page,
                            offset_in_page |-> offset_in_page, done |-> 0,
                            left |-> buf.len, ret |-> "", halt |-> ""],
                           size, entry, buf, data_bytes_per_page)
    IN  IF v2_bad_page_size(img) THEN Lost(img, "abort")
        ELSE IF Get16(img, v2_free_pages) * data_bytes_per_page + remaining_in_page < buf.len
        THEN Res(img, "EFBIG", 0)
        ELSE IF w.halt # "" THEN Lost(w.img, w.halt)
        ELSE IF w.ret # "OK" THEN Res(w.img, w.ret, 0)
        ELSE Res(w.img, "OK", buf.len)

-----------------------------------------------------------------------------
(* The requests. *)

create_both(img, isdir, path, now) ==
    IF ver = 1 THEN v1_zealfs_create_both(img, img_size, isdir, path, now)
    ELSE v2_zealfs_create_both(img, img_size, isdir, path, now)

unlink(img, path) ==
    IF ver = 1 THEN v1_zealfs_unlink(img, img_size, path)
    ELSE v2_zealfs_unlink(img, img_size, path)

(* an rmdir that gives the page of the directory back when it succeeds *)
rmdir_frees_page(img, path) ==
    LET r == IF ver = 1 THEN v1_zealfs_rmdir(img, img_size, path)
             ELSE v2_zealfs_rmdir(img, img_size, path)
        e == IF ver = 1 THEN v1_lookup(img, img_size, path, FALSE).entry
             ELSE v2_lookup(img, img_size, path, FALSE).entry
    IN  IF r.ret # "OK" \/ r.halt # "" THEN r
        ELSE IF ver = 1
        THEN [r EXCEPT !.img = v1_freePage(r.img, Get(img, e + v1_e_start_page))]
        ELSE [r EXCEPT !.img = v2_freePage(r.img, Get16(img, e + v2_e_start_page))]

rmdir(img, path) ==
    IF ver = 1 THEN v1_zealfs_rmdir(img, img_size, path)
    ELSE v2_zealfs_rmdir(img, img_size, path)

(* a rename that takes no notice of the flags *)
rename_whatever_flags(img, from, to, flags) ==
    IF ver = 1 THEN v1_zealfs_rename(img, img_size, from, to, 0)
    ELSE v2_zealfs_rename(img, img_size, from, to, 0)

rename(img, from, to, flags) ==
    IF ver = 1 THEN v1_zealfs_rename(img, img_size, from, to, flags)
    ELSE v2_zealfs_rename(img, img_size, from, to, flags)

open(img, path) ==
    IF ver = 1 THEN v1_zealfs_open(img, img_size, path)
    ELSE v2_zealfs_open(img, img_size, path)

(* open(path), then write through the handle *)
write(img, path, buf, offset) ==
    LET o == open(img, path)
    IN  IF o.ret # "OK" THEN o
        ELSE IF ver = 1 THEN v1_zealfs_write(img, img_size, o.val, buf, offset)
        ELSE v2_zealfs_write(img, img_size, o.val, buf, offset)

(* open(path), then read through the handle *)
read(img, path, rsize, offset) ==
    LET o == open(img, path)
    IN  IF o.ret # "OK" THEN o
        ELSE IF ver = 1 THEN v1_zealfs_read(img, img_size, o.val, rsize, offset)
        ELSE v2_zealfs_read(img, img_size, o.val, rsize, offset)

allocatePage(img) == IF ver = 1 THEN v1_allocatePage(img) ELSE v2_allocatePage(img)

(* browse_path from the root directory, as every handler calls it *)
lookup(img, path, want) ==
    IF ver = 1 THEN v1_lookup(img, img_size, path, want)
    ELSE v2_lookup(img, img_size, path, want)

(* The image file named on the command line: NoFile when stat fails, else *)
(* its length and its bytes (address -> non-zero byte).                   *)
NoFile == [exists |-> FALSE, size |-> 0, img |-> <<>>]
ImageFile(size, img) == [exists |-> TRUE, size |-> size, img |-> img]

(* the bytes offset .. offset + size - 1 of a file, read into the cache *)
read_file(file, offset, size) ==
    LET dom == {a \in DOMAIN file.img : a >= offset /\ a < offset + size}
    IN  [x \in {a - offset : a \in dom} |-> file.img[x + offset]] @@ <<>>

(* V1 zealfs_image_init; size is ctx->size as main left it.  ret is the *)
(* exit code, 0 when the file system gets mounted.                      *)
v1_zealfs_image_init(size, file) ==
    IF size > 64 THEN [ret |-> 1, size |-> size, img |-> <<>>]
    ELSE LET sz == IF file.exists THEN file.size ELSE size * 1024
             img == IF file.exists THEN read_file(file, 0, sz) ELSE v1_format(sz)
         IN  [ret |-> IF v1_check_integrity(img, sz) # 0 THEN 4 ELSE 0,
              size |-> sz, img |-> img]

MBR_SIZE == 512
PARTITION_ENTRY_SIZE == 16
PARTITION_TABLE_OFFSET == 446
PARTITION_TYPE_OFFSET == 4
LBA_OFFSET == 8
SECTOR_COUNT_OFFSET == 12
SECTOR_SIZE == 512

(* mbr_create: the sector it builds, ret 1 when an argument is not a *)
(* multiple of the sector size                                      *)
mbr_create(part_offset, part_size) ==
    LET entry == PARTITION_TABLE_OFFSET
        i1 == Put(<<>>, entry + PARTITION_TYPE_OFFSET, MAGIC)
        i2 == Put32(i1, entry + LBA_OFFSET, part_offset \div SECTOR_SIZE)
        i3 == Put32(i2, entry + SECTOR_COUNT_OFFSET, part_size \div SECTOR_SIZE)
        i4 == Put(Put(i3, 510, 85), 511, 170)
    IN  IF part_offset % SECTOR_SIZE # 0 \/ part_size % SECTOR_SIZE # 0
        THEN [ret |-> 1, mbr |-> <<>>]
        ELSE [ret |-> 0, mbr |-> i4]

(* *size = sector_count * SECTOR_SIZE: the product of a uint32_t, kept to *)
(* 32 bits, stored in an int                                             *)
mbr_size(mbr, entry) ==
    LET low == Get16(mbr, entry + SECTOR_COUNT_OFFSET)
               + 65536 * (Get(mbr, entry + SECTOR_COUNT_OFFSET + 2) % 128)
    IN  IF low >= Pow2(22) THEN (low - Pow2(23)) * SECTOR_SIZE ELSE low * SECTOR_SIZE

(* mbr_find_partition (LBA below 2^22) *)
mbr_find_partition(file) ==
    LET mbr == file.img
        none == [found |-> FALSE, offset |-> 0, size |-> 0]
        hits == {i \in 0 .. 3 :
                   Get(mbr, PARTITION_TABLE_OFFSET + i * PARTITION_ENTRY_SIZE
                            + PARTITION_TYPE_OFFSET) = MAGIC}
        i == CHOOSE h \in hits : \A k \in hits : h <= k
        entry == PARTITION_TABLE_OFFSET + i * PARTITION_ENTRY_SIZE
    IN  IF file.size < MBR_SIZE THEN none
        ELSE IF Get(mbr, 510) # 85 \/ Get(mbr, 511) # 170
        THEN IF Get(mbr, 0) = MAGIC
             THEN [found |-> TRUE, offset |-> 0, size |-> file.size]
             ELSE none
        ELSE IF hits = {} THEN none
        ELSE [found |-> TRUE,
              offset |-> Get32(mbr, entry + LBA_OFFSET) * SECTOR_SIZE,
              size |-> mbr_size(mbr, entry)]

(* V2 zealfs_image_init; ret -6 stands for the assert on the bytes read *)
(* (the process is killed by SIGABRT), ret -8 for the SIGFPE of format   *)
v2_zealfs_image_init(size, file, ub) ==
    LET part == mbr_find_partition(file)
        sz == IF file.exists THEN part.size ELSE size
        f == v2_format(sz, ub)
        img == IF file.exists THEN read_file(file, part.offset, sz) ELSE f.img
    IN  IF file.exists /\ ~part.found THEN [ret |-> 1, size |-> size, img |-> <<>>]
        ELSE IF file.exists /\ sz < 0 THEN [ret |-> 1, size |-> sz, img |-> <<>>]
        ELSE IF file.exists /\ part.offset + sz > file.size
        THEN [ret |-> -6, size |-> sz, img |-> <<>>]
        ELSE IF ~file.exists /\ f.trap THEN [ret |-> -8, size |-> sz, img |-> f.img]
        ELSE [ret |-> IF v2_check_integrity(img, sz) # 0 THEN 4 ELSE 0,
              size |-> sz, img |-> img]

(* main: --size is given in KB and converted to bytes, then the image_init *)
(* of the selected version runs                                           *)
image_init(v, size_kb, file, ub) ==
    IF v = 1 THEN v1_zealfs_image_init(size_kb * 1024, file)
    ELSE v2_zealfs_image_init(size_kb * 1024, file, ub)

check_integrity(v, img, size) ==
    IF v = 1 THEN v1_check_integrity(img, size) ELSE v2_check_integrity(img, size)

-----------------------------------------------------------------------------
(* What the properties read off an image. *)

Header_bitmap_size(img) ==
    IF ver = 1 THEN Get(img, v1_bitmap_size) ELSE Get16(img, v2_bitmap_size)

Header_free_pages(img) ==
    IF ver = 1 THEN Get(img, v1_free_pages) ELSE Get16(img, v2_free_pages)

BitmapByte(img, i) ==
    IF ver = 1 THEN Get(img, v1_pages_bitmap + i) ELSE Get(img, v2_pages_bitmap + i)

PageBit(img, page) == Bit(BitmapByte(img, page \div 8), page % 8)

(* the pages the bitmap covers, and those of them marked free *)
BitmapPages(img) == 0 .. (Header_bitmap_size(img) * 8 - 1)
ZeroBits(img) == {pg \in BitmapPages(img) : PageBit(img, pg) = 0}

(* free_pages and the bitmap bytes, as one value *)
HeaderState(img) ==
    [free_pages |-> Header_free_pages(img),
     bitmap |-> [i \in 0 .. (Header_bitmap_size(img) - 1) |-> BitmapByte(img, i)]]

PageSize(img) == IF ver = 1 THEN v1_PAGE ELSE v2_getPageSize(img)

Payload(img) == IF ver = 1 THEN v1_PAYLOAD ELSE v2_getPageSize(img)

PagesInImage(img) == img_size \div PageSize(img)

RootEntries(img) == IF ver = 1 THEN v1_entries ELSE v2_getRootDirEntries(img)

RootMaxEntries(img) ==
    IF ver = 1 THEN v1_ROOT_MAX_ENTRIES ELSE v2_getRootDirMaxEntries(img)

DirMaxEntries(img) == IF ver = 1 THEN v1_DIR_MAX_ENTRIES ELSE v2_getDirMaxEntries(img)

IsOccupied(img, e) == Get(img, e) \div IS_OCCUPIED # 0
IsDirEntry(img, e) == Get(img, e) % 2 = 1

StartPage(img, e) ==
    IF ver = 1 THEN Get(img, e + v1_e_start_page) ELSE Get16(img, e + v2_e_start_page)

(* the successor of a page in a file's chain *)
NextPage(img, page) ==
    IF ver = 1 THEN Get(img, v1_CONTENT_FROM_PAGE(page)) ELSE v2_getNextFromFat(img, page)

(* the slots of the root directory and of the directories one level below *)
RootSlots(img) == {RootEntries(img) + i * ENTRY_SIZE : i \in 0 .. (RootMaxEntries(img) - 1)}

DirSlots(img, page) ==
    {page * PageSize(img) + i * ENTRY_SIZE : i \in 0 .. (DirMaxEntries(img) - 1)}

SubDirPages(img) ==
    {StartPage(img, e) : e \in {x \in RootSlots(img) : IsOccupied(img, x) /\ IsDirEntry(img, x)}}

AllSlots(img) ==
    RootSlots(img) \cup UNION {DirSlots(img, pg) : pg \in SubDirPages(img) \ {0}}

FileEntries(img) == {e \in AllSlots(img) : IsOccupied(img, e) /\ ~IsDirEntry(img, e)}

(* the pages met from a start page along the chain, up to the terminator 0 *)
(* or the first page met twice                                             *)
RECURSIVE ChainFrom(_, _, _)
ChainFrom(img, page, seen) ==
    IF page = 0 \/ page \in seen \/ page >= PagesInImage(img) THEN seen
    ELSE ChainFrom(img, NextPage(img, page), seen \cup {page})

Chain(img, e) == ChainFrom(img, StartPage(img, e), {})

(* the chain from a start page ends at 0 and meets no page twice *)
RECURSIVE ChainEnds(_, _, _)
ChainEnds(img, page, seen) ==
    IF page = 0 THEN TRUE
    ELSE IF page \in seen \/ page >= PagesInImage(img) THEN FALSE
    ELSE ChainEnds(img, NextPage(img, page), seen \cup {page})

(* the slots of the directory browse_path searches for the last name of *)
(* a path of one or two names: the root, or the page the entry of the   *)
(* first name points to                                                 *)
FinalDirSlots(img, path) ==
    IF strrchr(path) = 1 THEN RootSlots(img)
    ELSE LET d == lookup(img, dirname(path), FALSE).entry
         IN  IF d = 0 THEN {} ELSE DirSlots(img, StartPage(img, d))

FreeSlots(img, path) == {e \in FinalDirSlots(img, path) : ~IsOccupied(img, e)}

(* a caller's buffer as the function from index to non-zero byte *)
BufImage(buf) == memcpy_in(<<>>, 0, buf, 0, buf.len)

(* D1 followed by D2 *)
BufConcat(b1, b2) == memcpy_in(BufImage(b1), b1.len, b2, 0, b2.len)

-----------------------------------------------------------------------------
(* The system: a mounted image serving one request after the other. *)

(* the wall clock *)
Clock == {[tm_year |-> 126, tm_mon |-> 10, tm_mday |-> 1, tm_wday |-> 0,
           tm_hour |-> 12, tm_min |-> 34, tm_sec |-> 56]}

Path_a == <<47, 97>>
Path_b == <<47, 98>>
Path_a_b == <<47, 97, 47, 98>>

Buf(n, b, g) == [len |-> n, base |-> b, gap |-> g]

NoBuf == Buf(0, 0, 1)

(* n bytes 0 *)
Zeroes(n) == Buf(n, 0, n + 1)

NoHist == [path |-> <<>>, hdr |-> <<>>, left |-> 0, writes |-> <<>>, open |-> FALSE]

(* the history a request leaves: a file successfully created opens it (hdr *)
(* is the header before the create, left the free_pages after it), the     *)
(* writes to that file are recorded, reading it changes nothing, unlinking *)
(* it closes it, and any other request forgets it                          *)
Track(op, path, buf, off, r) ==
    IF op = "create" /\ r.ret = "OK"
    THEN [path |-> path, hdr |-> HeaderState(g_image), left |-> Header_free_pages(r.img),
          writes |-> <<>>, open |-> TRUE]
    ELSE IF hist.open /\ path = hist.path /\ op = "write"
    THEN [hist EXCEPT !.writes = Append(@, [buf |-> buf, off |-> off, ret |-> r.ret])]
    ELSE IF hist.open /\ path = hist.path /\ op = "read" THEN hist
    ELSE IF hist.open /\ path = hist.path /\ op = "unlink"
    THEN [hist EXCEPT !.open = FALSE]
    ELSE NoHist

Serve(r, op, path, buf, off) ==
    /\ g_image' = r.img
    /\ ret' = r.ret
    /\ retval' = r.val
    /\ rdbuf' = r.rd
    /\ halted' = r.halt
    /\ last' = [op |-> op, path |-> path, buf |-> buf, off |-> off]
    /\ nops' = nops + 1
    /\ hist' = Track(op, path, buf, off, r)
    /\ UNCHANGED <<ver, img_size>>

(* a scope bounds the requests explored: paths, write buffers, offsets, *)
(* read sizes and the number of requests                                *)
Serving(S) == halted = "" /\ nops < S.max

CreateIn(S) == \E p \in S.paths, now \in Clock :
    Serving(S) /\ Serve(create_both(g_image, 0, p, now), "create", p, NoBuf, 0)

MkdirIn(S) == \E p \in S.paths, now \in Clock :
    Serving(S) /\ Serve(create_both(g_image, IS_DIR, p, now), "mkdir", p, NoBuf, 0)

WriteIn(S) == \E p \in S.paths, b \in S.bufs, o \in S.offsets :
    Serving(S) /\ Serve(write(g_image, p, b, o), "write", p, b, o)

ReadIn(S) == \E p \in S.paths, n \in S.reads :
    Serving(S) /\ Serve(read(g_image, p, n, 0), "read", p, Buf(n, 0, 1), 0)

UnlinkIn(S) == \E p \in S.paths :
    Serving(S) /\ Serve(unlink(g_image, p), "unlink", p, NoBuf, 0)

RmdirIn(S) == \E p \in S.paths :
    Serving(S) /\ Serve(rmdir(g_image, p), "rmdir", p, NoBuf, 0)

RenameIn(S) == \E p \in S.paths, q \in S.paths, f \in S.flags :
    Serving(S) /\ Serve(rename(g_image, p, q, f), "rename", p, NoBuf, 0)

(* A V1 file system is mounted from an image file that exists, with       *)
(* --size=0: any other size makes the V1 image_init return 1.  The file    *)
(* holds an empty V1 file system of size bytes, laid out as format does.   *)
V1Mount(size) == [v |-> 1, size_kb |-> 0, file |-> ImageFile(size, v1_format(size))]

(* A V2 file system of size_kb KB is formatted in a file that does not exist. *)
V2Mount(size_kb) == [v |-> 2, size_kb |-> size_kb, file |-> NoFile]

(* The state once image_init has returned 0 on one of the command lines. *)
InitIn(mounts) ==
    /\ \E m \in mounts, ub \in UB :
         LET r == image_init(m.v, m.size_kb, m.file, ub)
         IN  r.ret = 0 /\ ver = m.v /\ img_size = r.size /\ g_image = r.img
    /\ ret = "OK"
    /\ retval = 0
    /\ rdbuf = <<>>
    /\ halted = ""
    /\ last = [op |-> "init", path |-> <<>>, buf |-> NoBuf, off |-> 0]
    /\ nops = 0
    /\ hist = NoHist

(* Spec: V1 and V2 images of 2 KB and of 4 KB, every request *)
MaxOps == 4
Data == Buf(1280, 3, 64)
Scope ==
    [paths |-> {Path_a, Path_b, Path_a_b}, bufs |-> {Data}, offsets |-> {0, 1280},
     reads |-> {1280, 2560}, flags |-> {0, RENAME_NOREPLACE}, max |-> MaxOps]

Create == CreateIn(Scope)
Mkdir == MkdirIn(Scope)
Write == WriteIn(Scope)
Read == ReadIn(Scope)
Unlink == UnlinkIn(Scope)
Rmdir == RmdirIn(Scope)
Rename == RenameIn(Scope)

Init == InitIn({V1Mount(2048), V1Mount(4096), V2Mount(2), V2Mount(4)})

Next == Create \/ Mkdir \/ Write \/ Read \/ Unlink \/ Rmdir \/ Rename

Spec == Init /\ [][Next]_vars

(* SpecChain: a V1 image of 2 KB, two files created, written whole, read *)
(* and unlinked                                                          *)
MaxChainOps == 8
ChainData == Buf(600, 65, 50)
ChainScope ==
    [paths |-> {Path_a, Path_b}, bufs |-> {ChainData}, offsets |-> {0},
     reads |-> {600}, flags |-> {0}, max |-> MaxChainOps]

ChainCreate == CreateIn(ChainScope)
ChainWrite == WriteIn(ChainScope)
ChainRead == ReadIn(ChainScope)
ChainUnlink == UnlinkIn(ChainScope)

InitChain == InitIn({V1Mount(2048)})

NextChain == ChainCreate \/ ChainWrite \/ ChainRead \/ ChainUnlink

SpecChain == InitChain /\ [][NextChain]_vars

(* SpecBig: a V2 image of 132 KB, 264 pages of 512 bytes, and a buffer that *)
(* fills the pages 3 to 256                                                *)
MaxBigOps == 5
BigScope ==
    [paths |-> {Path_a, Path_b}, bufs |-> {Zeroes(254 * 512)}, offsets |-> {0},
     reads |-> {}, flags |-> {0}, max |-> MaxBigOps]

BigCreate == CreateIn(BigScope)
BigWrite == WriteIn(BigScope)
BigUnlink == UnlinkIn(BigScope)

InitBig == InitIn({V2Mount(132)})

NextBig == BigCreate \/ BigWrite \/ BigUnlink

SpecBig == InitBig /\ [][NextBig]_vars

(* SpecDir: images that already hold files.  The root holds the directory *)
(* /d and the files /c, /e and /f and has two slots left; /d holds seven  *)
(* files and has one slot left.                                           *)
Name16 == <<47>> \o [i \in 1 .. 16 |-> 96 + i]
Name17 == <<47>> \o [i \in 1 .. 17 |-> 96 + i]
Path_c == <<47, 99>>
Path_d == <<47, 100>>
Path_d_a == <<47, 100, 47, 97>>
Path_d_b == <<47, 100, 47, 98>>
Path_x_a == <<47, 120, 47, 97>>

(* the requests that filled the image: mkdir /d, create /d/1 .. /d/7, *)
(* create /c, /e, /f                                                  *)
Filling ==
    <<[isdir |-> IS_DIR, path |-> Path_d]>>
    \o [i \in 1 .. 7 |-> [isdir |-> 0, path |-> <<47, 100, 47, 48 + i>>]]
    \o <<[isdir |-> 0, path |-> Path_c], [isdir |-> 0, path |-> <<47, 101>>],
         [isdir |-> 0, path |-> <<47, 102>>]>>

(* the image after the requests reqs[k .. Len(reqs)] were served *)
RECURSIVE Filled(_, _, _, _, _)
Filled(v, img, size, reqs, k) ==
    IF k > Len(reqs) THEN img
    ELSE LET now == CHOOSE t \in Clock : TRUE
             r == IF v = 1
                  THEN v1_zealfs_create_both(img, size, reqs[k].isdir, reqs[k].path, now)
                  ELSE v2_zealfs_create_both(img, size, reqs[k].isdir, reqs[k].path, now)
         IN  Filled(v, r.img, size, reqs, k + 1)

(* an image file of size bytes that exists and holds the files of Filling; *)
(* V1 is mounted with --size=0, V2 takes the size of the file it finds     *)
FilledMount(v, size) ==
    [v |-> v, size_kb |-> 0,
     file |-> ImageFile(size, Filled(v, IF v = 1 THEN v1_format(size) ELSE v2_format(size, NoUB).img,
                                     size, Filling, 1))]

MaxDirOps == 3
DirScope ==
    [paths |-> {Path_a, Path_b, Path_c, Path_d_a, Path_d_b, Path_x_a, Name16, Name17},
     bufs |-> {}, offsets |-> {}, reads |-> {}, flags |-> {}, max |-> MaxDirOps]

InitDir == InitIn({FilledMount(1, 4096), FilledMount(2, 8192)})

NextDir == CreateIn(DirScope) \/ MkdirIn(DirScope) \/ UnlinkIn(DirScope)

SpecDir == InitDir /\ [][NextDir]_vars

(* SpecWrap: a V1 image of 64 KB, the largest V1 allows, and a buffer of *)
(* 100 pages written at offset 0 or after the first 100 pages            *)
MaxWrapOps == 4
WrapData == Buf(100 * v1_PAYLOAD, 65, 500)
WrapScope ==
    [paths |-> {Path_a, Path_b}, bufs |-> {WrapData}, offsets |-> {0, WrapData.len},
     reads |-> {}, flags |-> {}, max |-> MaxWrapOps]

InitWrap == InitIn({V1Mount(65536)})

NextWrap == CreateIn(WrapScope) \/ WriteIn(WrapScope) \/ UnlinkIn(WrapScope)

SpecWrap == InitWrap /\ [][NextWrap]_vars

(* The file system is unmounted and mounted again: zealfs_destroy writes  *)
(* the cache to the image file, and the program is started on that file   *)
(* with --size=0.  retval is the exit code of image_init; the process     *)
(* exits when it is not 0.                                                *)
RemountIn(S) ==
    /\ Serving(S)
    /\ LET r == image_init(ver, 0, ImageFile(img_size, g_image), NoUB)
       IN  /\ g_image' = r.img
           /\ img_size' = r.size
           /\ ret' = (IF r.ret = 0 THEN "OK" ELSE "EXIT")
           /\ retval' = r.ret
           /\ halted' = (IF r.ret = 0 THEN "" ELSE "exit")
    /\ rdbuf' = <<>>
    /\ last' = [op |-> "mount", path |-> <<>>, buf |-> NoBuf, off |-> 0]
    /\ nops' = nops + 1
    /\ hist' = NoHist
    /\ UNCHANGED ver

(* SpecLoad: V1 and V2 images of 2 KB, files created, written and removed, *)
(* and the image mounted again                                             *)
MaxLoadOps == 7
LoadScope ==
    [paths |-> {Path_a, Path_b}, bufs |-> {ChainData}, offsets |-> {0},
     reads |-> {}, flags |-> {}, max |-> MaxLoadOps]

InitLoad == InitIn({V1Mount(2048), V2Mount(2)})

NextLoad ==
    CreateIn(LoadScope) \/ WriteIn(LoadScope) \/ UnlinkIn(LoadScope) \/ RemountIn(LoadScope)

SpecLoad == InitLoad /\ [][NextLoad]_vars

(* SpecFormat: the program is started on an image file that does not     *)
(* exist, with --v1 or --v2 and --size=kb.  V1 is given every size from  *)
(* 1 KB to 64 KB, V2 the smallest and the largest size of every step of  *)
(* pageSizeFromDiskSize, up to the largest size an int holds.            *)
V1_MAX_KB == 64
V1Sizes == 1 .. V1_MAX_KB
V2Sizes ==
    {1, 2, 64, 65, 256, 257, KB(1), KB(1) + 1, KB(4), KB(4) + 1, KB(16), KB(16) + 1,
     KB(64), KB(64) + 1, KB(256), KB(256) + 1, MB(1), MB(1) + 1, MB(2) - 1}

(* main has parsed the options and multiplied options.size by 1024; *)
(* last.mbr is options.mbr                                          *)
InitFormat ==
    /\ \E v \in {1, 2}, kb \in V1Sizes \cup V2Sizes, mbr \in BOOLEAN :
         /\ kb \in (IF v = 1 THEN V1Sizes ELSE V2Sizes)
         /\ ver = v
         /\ img_size = kb * 1024
         /\ last = [op |-> "main", path |-> <<>>, buf |-> NoBuf, off |-> 0, mbr |-> mbr]
    /\ g_image = <<>>
    /\ ret = "OK"
    /\ retval = 0
    /\ rdbuf = <<>>
    /\ halted = ""
    /\ nops = 0
    /\ hist = NoHist

(* ops->image_init(&options): retval is what it returns, last.off the *)
(* size in KB it was started with                                     *)
ImageInit == \E ub \in UB :
    /\ last.op = "main"
    /\ LET r == image_init(ver, img_size \div 1024, NoFile, ub)
       IN  /\ g_image' = r.img
           /\ img_size' = r.size
           /\ ret' = (IF r.ret = 0 THEN "OK" ELSE "EXIT")
           /\ retval' = r.ret
           /\ halted' = (IF r.ret = 0 THEN "" ELSE "exit")
    /\ rdbuf' = <<>>
    /\ last' = [op |-> "image_init", path |-> <<>>, buf |-> NoBuf, off |-> img_size \div 1024,
                mbr |-> last.mbr]
    /\ nops' = nops + 1
    /\ hist' = NoHist
    /\ UNCHANGED ver

NextFormat == ImageInit

SpecFormat == InitFormat /\ [][NextFormat]_vars

(* SpecRename: images that hold the directories /a and /b and the files  *)
(* /a/f, /c and /e with content; /b is empty.  They are renamed, removed *)
(* and made again.                                                       *)
Path_e == <<47, 101>>
Path_a_f == <<47, 97, 47, 102>>
Path_b_g == <<47, 98, 47, 103>>

(* the requests that prepared the image *)
Preparing ==
    <<[op |-> "mkdir", path |-> Path_a, buf |-> NoBuf],
      [op |-> "mkdir", path |-> Path_b, buf |-> NoBuf],
      [op |-> "create", path |-> Path_a_f, buf |-> NoBuf],
      [op |-> "write", path |-> Path_a_f, buf |-> Buf(600, 65, 50)],
      [op |-> "create", path |-> Path_c, buf |-> NoBuf],
      [op |-> "write", path |-> Path_c, buf |-> Buf(600, 97, 40)],
      [op |-> "create", path |-> Path_e, buf |-> NoBuf],
      [op |-> "write", path |-> Path_e, buf |-> Buf(300, 48, 30)]>>

(* the image after the requests reqs[k .. Len(reqs)] were served: mkdir, *)
(* create, or open and write at offset 0                                 *)
RECURSIVE Prepared(_, _, _, _, _)
Prepared(v, img, size, reqs, k) ==
    IF k > Len(reqs) THEN img
    ELSE LET now == CHOOSE t \in Clock : TRUE
             q == reqs[k]
             isdir == IF q.op = "mkdir" THEN IS_DIR ELSE 0
             r == IF q.op = "write"
                  THEN IF v = 1
                       THEN v1_zealfs_write(img, size, v1_zealfs_open(img, size, q.path).val,
                                            q.buf, 0)
                       ELSE v2_zealfs_write(img, size, v2_zealfs_open(img, size, q.path).val,
                                            q.buf, 0)
                  ELSE IF v = 1 THEN v1_zealfs_create_both(img, size, isdir, q.path, now)
                  ELSE v2_zealfs_create_both(img, size, isdir, q.path, now)
         IN  Prepared(v, r.img, size, reqs, k + 1)

(* an image file of size bytes that exists and holds the files of Preparing *)
PreparedMount(v, size) ==
    [v |-> v, size_kb |-> 0,
     file |-> ImageFile(size, Prepared(v, IF v = 1 THEN v1_format(size)
                                          ELSE v2_format(size, NoUB).img,
                                       size, Preparing, 1))]

MaxRenameOps == 2
RenameScope ==
    [paths |-> {Path_a_f, Path_b_g, Path_c, Path_e}, bufs |-> {}, offsets |-> {},
     reads |-> {}, flags |-> {0, RENAME_NOREPLACE, RENAME_EXCHANGE}, max |-> MaxRenameOps]
RenameDirScope == [RenameScope EXCEPT !.paths = {Path_b, Path_d}]

(* a rename request; last keeps the destination and the flags too *)
ServeRename(r, p, q, f) ==
    /\ g_image' = r.img
    /\ ret' = r.ret
    /\ retval' = r.val
    /\ rdbuf' = r.rd
    /\ halted' = r.halt
    /\ last' = [op |-> "rename", path |-> p, buf |-> NoBuf, off |-> 0, to |-> q, flags |-> f]
    /\ nops' = nops + 1
    /\ hist' = Track("rename", p, NoBuf, 0, r)
    /\ UNCHANGED <<ver, img_size>>

RenameTo(S) == \E p \in S.paths, q \in S.paths, f \in S.flags :
    Serving(S) /\ p # q /\ ServeRename(rename(g_image, p, q, f), p, q, f)

InitRename == InitIn({PreparedMount(1, 4096), PreparedMount(2, 4096)})

NextRename ==
    \/ RenameTo(RenameScope)
    \/ UnlinkIn(RenameScope)
    \/ MkdirIn(RenameDirScope)
    \/ RmdirIn(RenameDirScope)

SpecRename == InitRename /\ [][NextRename]_vars

(* SpecMbr: the first sector of an image file that exists is searched for *)
(* a partition, as zealfs_image_init of V2 does, either on a file found   *)
(* on the disk or on the sector mbr_create builds.                        *)
NoPart == [offset |-> -1, size |-> -1]

(* a first sector: byte 0, the type of each of the four entries, whose LBA *)
(* is 2048 * (i + 1) and whose sector count is count + i, and the          *)
(* signature or none                                                       *)
RECURSIVE MbrEntries(_, _, _, _)
MbrEntries(img, types, count, i) ==
    IF i = 4 THEN img
    ELSE LET entry == PARTITION_TABLE_OFFSET + i * PARTITION_ENTRY_SIZE
             i1 == Put(img, entry + PARTITION_TYPE_OFFSET, types[i])
             i2 == Put32(i1, entry + LBA_OFFSET, 2048 * (i + 1))
             i3 == Put32(i2, entry + SECTOR_COUNT_OFFSET, count + i)
         IN  MbrEntries(i3, types, count, i + 1)

MbrSector(signed, byte0, types, count) ==
    LET i1 == MbrEntries(Put(<<>>, 0, byte0), types, count, 0)
    IN  IF signed THEN Put(Put(i1, 510, 85), 511, 170) ELSE i1

(* sector counts of 512 bytes, 1 MB, just under 2 GB, 2 GB, and 4 GB + 4 KB *)
SectorCounts == {1, 2048, Pow2(22) - 4, Pow2(22), Pow2(23) + 8}

MbrFiles ==
    {ImageFile(KB(64), MbrSector(signed, byte0, types, count)) :
        signed \in BOOLEAN, byte0 \in {0, MAGIC},
        types \in [0 .. 3 -> {0, MAGIC, 131}], count \in SectorCounts}
    \cup {ImageFile(256, Put(<<>>, 0, MAGIC))}

PartOffsets == {100, SECTOR_SIZE, MB(1)}
PartSizes == {KB(64), MB(1), GB(1)}

InitMbr ==
    /\ ver = 2
    /\ img_size = 0
    /\ g_image = <<>>
    /\ ret = "OK"
    /\ retval = 0
    /\ rdbuf = <<>>
    /\ halted = ""
    /\ \E f \in MbrFiles :
         last = [op |-> "main", path |-> <<>>, buf |-> NoBuf, off |-> 0,
                 file |-> f, part |-> NoPart]
    /\ nops = 0
    /\ hist = NoHist

(* the sector of mbr_create becomes the first sector of a file that holds *)
(* the partition; last.part keeps the arguments                           *)
WriteMbr(r, part_offset, part_size) ==
    /\ retval' = r.ret
    /\ last' = IF r.ret # 0 THEN [last EXCEPT !.op = "mbr_create"]
               ELSE [last EXCEPT !.op = "mbr_create",
                                 !.file = ImageFile(part_offset + part_size, r.mbr),
                                 !.part = [offset |-> part_offset, size |-> part_size]]
    /\ nops' = nops + 1
    /\ UNCHANGED <<ver, img_size, g_image, ret, rdbuf, halted, hist>>

MbrCreate == \E part_offset \in PartOffsets, part_size \in PartSizes :
    last.op = "main" /\ WriteMbr(mbr_create(part_offset, part_size), part_offset, part_size)

(* mbr_find_partition(ctx->img_file, st.st_size, &ctx->offset, &ctx->size): *)
(* retval is what it returns, last.off is ctx->offset, img_size ctx->size  *)
FoundPartition(p) ==
    /\ retval' = (IF p.found THEN 1 ELSE 0)
    /\ img_size' = (IF p.found THEN p.size ELSE img_size)
    /\ last' = [last EXCEPT !.op = "mbr_find_partition",
                            !.off = IF p.found THEN p.offset ELSE @]
    /\ nops' = nops + 1
    /\ UNCHANGED <<ver, g_image, ret, rdbuf, halted, hist>>

MbrFindPartition ==
    last.op \in {"main", "mbr_create"} /\ FoundPartition(mbr_find_partition(last.file))

NextMbr == MbrCreate \/ MbrFindPartition

SpecMbr == InitMbr /\ [][NextMbr]_vars

(* SpecPage: a V1 image of 4 KB and a V2 image of 65 KB, whose pages have *)
(* 512 bytes.  A file is written with a page of bytes that have bit 7 set *)
(* every 32 bytes, files are removed and directories made and removed.    *)
MaxPageOps == 5
PageData == Buf(512, 200, 32)
PageScope ==
    [paths |-> {Path_a, Path_d}, bufs |-> {PageData}, offsets |-> {0},
     reads |-> {}, flags |-> {}, max |-> MaxPageOps]

InitPage == InitIn({V1Mount(4096), V2Mount(65)})

NextPageOps ==
    \/ CreateIn(PageScope) \/ WriteIn(PageScope) \/ UnlinkIn(PageScope)
    \/ MkdirIn(PageScope) \/ RmdirIn(PageScope)

SpecPage == InitPage /\ [][NextPageOps]_vars

(* SpecFull: the images of SpecDir with one more file, /d/a, so that the *)
(* directory /d has no slot left; files are renamed and removed.        *)
FullMount(v, size) ==
    [v |-> v, size_kb |-> 0,
     file |-> ImageFile(size, Filled(v, IF v = 1 THEN v1_format(size) ELSE v2_format(size, NoUB).img,
                                     size, Filling \o <<[isdir |-> 0, path |-> Path_d_a]>>, 1))]

MaxFullOps == 2
FullScope ==
    [paths |-> {Path_c, Path_e, Path_d_a, Path_d_b}, bufs |-> {}, offsets |-> {}, reads |-> {},
     flags |-> {0, RENAME_NOREPLACE, RENAME_EXCHANGE}, max |-> MaxFullOps]

InitFull == InitIn({FullMount(1, 4096), FullMount(2, 8192)})

NextFull == RenameTo(FullScope) \/ UnlinkIn(FullScope)

SpecFull == InitFull /\ [][NextFull]_vars

(* SpecEdge: the V2 image of SpecBig, 264 pages of 512 bytes, and a buffer *)
(* that fills the pages 3 to 255, so that page 256 is the next the        *)
(* allocator gives                                                        *)
MaxEdgeOps == 4
EdgeScope ==
    [paths |-> {Path_a, Path_b}, bufs |-> {Zeroes(253 * 512)}, offsets |-> {0},
     reads |-> {}, flags |-> {}, max |-> MaxEdgeOps]

InitEdge == InitIn({V2Mount(132)})

NextEdge ==
    \/ CreateIn(EdgeScope) \/ MkdirIn(EdgeScope) \/ WriteIn(EdgeScope) \/ UnlinkIn(EdgeScope)

SpecEdge == InitEdge /\ [][NextEdge]_vars

-----------------------------------------------------------------------------
(* The properties. *)

(* C1: after every request served, the header field free_pages equals the *)
(* number of 0 bits among the first bitmap_size * 8 bits of the bitmap.   *)
C1_free_pages_counts_zero_bits ==
    halted = "" => Header_free_pages(g_image) = Cardinality(ZeroBits(g_image))

(* C2: after every request served, no page belongs to the chains of two *)
(* distinct occupied file entries.                                      *)
C2_no_page_in_two_chains ==
    halted = "" =>
        \A e1 \in FileEntries(g_image) : \A e2 \in FileEntries(g_image) :
            e1 # e2 => Chain(g_image, e1) \cap Chain(g_image, e2) = {}

(* C3: after every request served, every page reachable from an occupied *)
(* file entry's start_page along the chain has its bitmap bit set to 1.  *)
C3_chain_pages_allocated ==
    halted = "" =>
        \A e \in FileEntries(g_image) : \A pg \in Chain(g_image, e) :
            PageBit(g_image, pg) = 1

(* C4: after every request served, the chain of every occupied file entry *)
(* reaches the terminator 0 without meeting any page twice.               *)
C4_chains_end ==
    halted = "" =>
        \A e \in FileEntries(g_image) : ChainEnds(g_image, StartPage(g_image, e), {})

(* the requests since the last create are k writes to the created file, *)
(* all of them served                                                   *)
Written(k) ==
    /\ hist.path # <<>>
    /\ hist.path = last.path
    /\ Len(hist.writes) = k
    /\ \A i \in 1 .. k : hist.writes[i].ret = "OK"

(* C5: create(p), then write(p, D, 0) with |D| <= free_pages * payload,   *)
(* then read(p, |D|, 0): the write is served in full and the read returns *)
(* |D| bytes equal to D.                                                  *)
C5_write_then_read_returns_data ==
    LET D == hist.writes[1].buf
        fits == D.len <= MIN(hist.hdr.free_pages, hist.left) * Payload(g_image)
    IN  /\ (last.op = "write" /\ hist.open /\ hist.path = last.path
            /\ Len(hist.writes) = 1 /\ last.off = 0 /\ fits)
           => (halted = "" /\ ret = "OK" /\ retval = D.len)
        /\ (last.op = "read" /\ hist.open /\ Written(1) /\ hist.writes[1].off = 0
            /\ fits /\ last.buf.len = D.len)
           => (halted = "" /\ ret = "OK" /\ retval = D.len /\ rdbuf = BufImage(D))

(* C6: create(p), then D1 written at offset 0 and D2 at offset |D1|, with *)
(* |D1| >= payload and both writes served: a read of |D1| + |D2| bytes at *)
(* offset 0 returns D1 followed by D2.                                    *)
C6_second_write_continues_the_file ==
    LET D1 == hist.writes[1].buf
        D2 == hist.writes[2].buf
    IN  (last.op = "read" /\ hist.open /\ Written(2) /\ hist.writes[1].off = 0
         /\ hist.writes[2].off = D1.len /\ D1.len >= Payload(g_image)
         /\ last.buf.len = D1.len + D2.len /\ halted = "")
        => (ret = "OK" /\ retval = D1.len + D2.len /\ rdbuf = BufConcat(D1, D2))

(* C7: create(p), then any writes to p, then unlink(p): free_pages and the *)
(* bitmap are what they were before the create.                            *)
C7_unlink_restores_header ==
    (last.op = "unlink" /\ ~hist.open /\ hist.path # <<>> /\ hist.path = last.path)
    => (halted = "" /\ ret = "OK" /\ HeaderState(g_image) = hist.hdr)

(* C8: allocatePage on the current image: when the first bitmap_size bytes *)
(* hold a 0 bit it returns the lowest-numbered page whose bit is 0, sets     *)
(* that bit, decrements free_pages by 1 and changes nothing else; when       *)
(* every byte is 0xFF it returns 0 and changes nothing.                      *)
C8_allocatePage_lowest_free ==
    LET a == allocatePage(g_image)
        free == ZeroBits(g_image)
        lowest == CHOOSE pg \in free : \A q \in free : pg <= q
        fields == IF ver = 1 THEN {v1_free_pages} ELSE {v2_free_pages, v2_free_pages + 1}
        bitmap == {(IF ver = 1 THEN v1_pages_bitmap ELSE v2_pages_bitmap) + i :
                       i \in 0 .. (Header_bitmap_size(g_image) - 1)}
    IN  halted = "" =>
        IF free # {}
        THEN /\ a.page = lowest
             /\ \A pg \in BitmapPages(g_image) :
                    PageBit(a.img, pg) = IF pg = lowest THEN 1 ELSE PageBit(g_image, pg)
             /\ Header_free_pages(a.img) = Header_free_pages(g_image) - 1
             /\ \A x \in (DOMAIN g_image \cup DOMAIN a.img) \ (fields \cup bitmap) :
                    Get(a.img, x) = Get(g_image, x)
        ELSE a.page = 0 /\ a.img = g_image

(* a file was created on a page below an allocated one: allocatePage *)
(* filled a hole of the bitmap                                       *)
C8_hole_filled ==
    /\ last.op = "create" /\ ret = "OK" /\ halted = ""
    /\ LET e == lookup(g_image, last.path, FALSE).entry
       IN  e # 0 /\ \E q \in BitmapPages(g_image) :
                        q > StartPage(g_image, e) /\ PageBit(g_image, q) = 1

(* C9: the bitmap bits of page 0 and, on V2, of the FAT pages 1 and 2 *)
(* stay 1 after every request served.                                 *)
C9_reserved_pages_stay_allocated ==
    halted = "" =>
        /\ PageBit(g_image, 0) = 1
        /\ ver = 2 => (PageBit(g_image, 1) = 1 /\ PageBit(g_image, 2) = 1)

(* the highest and the lowest of a non-empty set of slots *)
HighestSlot(slots) == CHOOSE e \in slots : \A x \in slots : x <= e
LowestSlot(slots) == CHOOSE e \in slots : \A x \in slots : e <= x

(* C10, as the code has it: for a name that is not in its directory, path *)
(* resolution reports the last (highest-index) unoccupied slot of that    *)
(* directory, and a create or mkdir served leaves the new entry above     *)
(* every unoccupied slot of its directory.                                *)
C10_last_free_slot_wins ==
    halted = "" =>
        /\ \A p \in Scope.paths :
              LET b == lookup(g_image, p, TRUE)
                  free == FreeSlots(g_image, p)
              IN  (b.entry = 0 /\ ~b.fault /\ free # {}) => b.free = HighestSlot(free)
        /\ (last.op \in {"create", "mkdir"} /\ ret = "OK")
           => LET e == lookup(g_image, last.path, FALSE).entry
              IN  e # 0 /\ \A x \in FreeSlots(g_image, last.path) : x < e

(* a create or mkdir was served in a directory that had another unoccupied *)
(* slot below the one taken                                                *)
C10_created_above_free_slot ==
    /\ last.op \in {"create", "mkdir"} /\ ret = "OK" /\ halted = ""
    /\ LET e == lookup(g_image, last.path, FALSE).entry
       IN  e # 0 /\ \E x \in FreeSlots(g_image, last.path) : x < e

(* C10, as stated: the slot reported is the first (lowest-index) unoccupied *)
(* slot of the final directory, and create places the new entry in it: no   *)
(* unoccupied slot is left below the new entry.                             *)
C10_first_free_slot_wins ==
    halted = "" =>
        /\ \A p \in Scope.paths :
              LET b == lookup(g_image, p, TRUE)
                  free == FreeSlots(g_image, p)
              IN  (b.entry = 0 /\ ~b.fault /\ free # {}) => b.free = LowestSlot(free)
        /\ (last.op \in {"create", "mkdir"} /\ ret = "OK")
           => LET e == lookup(g_image, last.path, FALSE).entry
              IN  e # 0 /\ \A x \in FreeSlots(g_image, last.path) : x > e

(* the entry at e holds exactly this name, zero-filled to 16 bytes *)
HasName(img, e, name) ==
    \A k \in 0 .. (NAME_MAX_LEN - 1) :
        Get(img, e + 1 + k) = (IF k < Len(name) THEN name[k + 1] ELSE 0)

(* the directory that should hold the last name of the path exists *)
ParentExists(img, path) ==
    \/ strrchr(path) = 1
    \/ LET d == lookup(img, dirname(path), FALSE).entry
       IN  d # 0 /\ IsDirEntry(img, d)

(* an occupied entry of the parent directory holds the last name of the path *)
TargetExists(img, path) ==
    /\ ParentExists(img, path)
    /\ \E e \in FinalDirSlots(img, path) :
           IsOccupied(img, e) /\ HasName(img, e, basename(path))

(* C11: create and mkdir do not refuse a basename of 16 bytes, and the      *)
(* entry they create resolves by that name; they fail with ENAMETOOLONG on *)
(* a basename of 17 bytes or more.                                          *)
C11_name_length_limit ==
    (last.op \in {"create", "mkdir"} /\ halted = "") =>
        LET len == Len(basename(last.path))
        IN  /\ len >= 17 => ret = "ENAMETOOLONG"
            /\ len = 16 => /\ ret # "ENAMETOOLONG"
                           /\ ret = "OK" => TargetExists(g_image, last.path)

(* C12: on the current image create and mkdir of a path that resolves to  *)
(* an occupied entry fail with EEXIST, and of a path that is absent from  *)
(* a parent directory whose slots are all occupied fail with ENFILE; the  *)
(* image is left as it was.                                               *)
C12_create_EEXIST_ENFILE ==
    halted = "" =>
        \A p \in DirScope.paths : \A isdir \in {0, IS_DIR} : \A now \in Clock :
            LET r == create_both(g_image, isdir, p, now)
            IN  Len(basename(p)) <= NAME_MAX_LEN =>
                /\ TargetExists(g_image, p) => (r.ret = "EEXIST" /\ r.img = g_image)
                /\ (ParentExists(g_image, p) /\ ~TargetExists(g_image, p)
                    /\ FreeSlots(g_image, p) = {})
                   => (r.ret = "ENFILE" /\ r.img = g_image)

(* a create or mkdir failed with ENFILE on a name that is absent from a *)
(* parent directory whose slots are all occupied                        *)
C12_refused_in_full_directory ==
    /\ last.op \in {"create", "mkdir"} /\ ret = "ENFILE" /\ halted = ""
    /\ Len(basename(last.path)) <= NAME_MAX_LEN
    /\ ParentExists(g_image, last.path)
    /\ ~TargetExists(g_image, last.path)
    /\ FreeSlots(g_image, last.path) = {}

(* C13: create or mkdir of a path whose parent directory does not exist *)
(* fails with ENOENT.                                                   *)
C13_missing_parent_ENOENT ==
    (last.op \in {"create", "mkdir"} /\ halted = ""
     /\ ~ParentExists(g_image, last.path))
    => ret = "ENOENT"

(* the path resolves to an occupied entry that is not a directory *)
IsFile(img, path) ==
    LET b == lookup(img, path, FALSE)
    IN  ~b.fault /\ b.entry # 0 /\ ~IsDirEntry(img, b.entry)

(* the largest size the free-space test of write lets through at offset *)
FullSize(img, offset) ==
    Header_free_pages(img) * Payload(img) + (Payload(img) - (offset % Payload(img)))

(* C14: on the current image, a write at offset 0 of exactly                *)
(* free_pages * payload + payload bytes to a file is served in full and     *)
(* returns that size, and a write of one byte more fails and changes        *)
(* nothing.                                                                 *)
C14_full_write_succeeds ==
    halted = "" =>
        \A p \in ChainScope.paths :
            IsFile(g_image, p) =>
                LET full == FullSize(g_image, 0)
                    r == write(g_image, p, Buf(full, 65, 50), 0)
                    r1 == write(g_image, p, Buf(full + 1, 65, 50), 0)
                IN  /\ r.halt = "" /\ r.ret = "OK" /\ r.val = full
                    /\ r1.halt = "" /\ r1.ret \in {"EFBIG", "ENOSPC"} /\ r1.img = g_image

(* C15: a write request to a file whose size exceeds                       *)
(* free_pages * payload + (payload - offset_in_page) fails with EFBIG on   *)
(* V1 and with ENOSPC on V2, and leaves the image as it was.               *)
C15_oversized_write_refused ==
    [][(last'.op = "write" /\ IsFile(g_image, last'.path)
        /\ FullSize(g_image, last'.off) < last'.buf.len)
       => (/\ halted' = ""
           /\ ret' = (IF ver = 1 THEN "EFBIG" ELSE "ENOSPC")
           /\ g_image' = g_image)]_vars

(* the size field of the entry a path resolves to *)
EntrySize(img, path) ==
    LET e == lookup(img, path, FALSE).entry
    IN  IF ver = 1 THEN Get16(img, e + v1_e_size) ELSE Get32(img, e + v2_e_size)

(* C16: a write request served on a file leaves the entry's size field at *)
(* its former value plus the number of bytes written.                     *)
C16_write_adds_to_size ==
    [][(last'.op = "write" /\ halted' = "" /\ ret' = "OK"
        /\ IsFile(g_image, last'.path) /\ IsFile(g_image', last'.path))
       => EntrySize(g_image', last'.path) = EntrySize(g_image, last'.path) + retval']_vars

(* C17: on every image reached, a read request of n bytes at offset off on *)
(* a file of size sz is served and returns MIN(n, sz - off) bytes, and 0   *)
(* bytes when off >= sz.                                                   *)
C17_read_clamped_to_rest ==
    halted = "" =>
        \A p \in Scope.paths, n \in Scope.reads, off \in Scope.offsets :
            IsFile(g_image, p) =>
                LET r == read(g_image, p, n, off)
                    sz == EntrySize(g_image, p)
                IN  /\ r.halt = ""
                    /\ r.ret = "OK"
                    /\ r.val = (IF off >= sz THEN 0 ELSE MIN(n, sz - off))

(* C18: when the image is mounted, a bitmap with more 0 bits than        *)
(* free_pages lets the mount succeed, and a bitmap with fewer 0 bits     *)
(* than free_pages makes it fail.                                        *)
C18_integrity_free_count ==
    last.op = "mount" =>
        LET counted == Cardinality(ZeroBits(g_image))
            free_pages == Header_free_pages(g_image)
        IN  /\ counted > free_pages => retval = 0
            /\ counted < free_pages => retval # 0

(* C19: started on a new image file with a supported size, the program *)
(* formats the image and the integrity check passes: image_init        *)
(* returns 0.                                                          *)
C19_format_then_integrity ==
    last.op = "image_init" => retval = 0

(* C20: the header format leaves in a new V2 image of S bytes holds a    *)
(* page size code c of 0 to 8 with 256 << c the page size of the step    *)
(* table for S, and a bitmap size of S / P / 8.                          *)
C20_page_size_code ==
    (last.op = "image_init" /\ ver = 2) =>
        LET S == last.off * 1024
            P == pageSizeFromDiskSize(S)
            c == Get(g_image, v2_page_size)
        IN  /\ retval # -8
            /\ c \in 0 .. 8
            /\ 256 * Pow2(c) = P
            /\ Get16(g_image, v2_bitmap_size) = (S \div P) \div 8

(* C21: a new V2 image has one FAT page when its pages are of 256 bytes   *)
(* and two otherwise: with 256-byte pages only the pages 0 and 1 are      *)
(* marked and free_pages is the number of pages minus 2; with larger      *)
(* pages the pages 0, 1 and 2 are marked and free_pages is the number     *)
(* of pages minus 3.                                                      *)
C21_fat_pages_reserved ==
    (last.op = "image_init" /\ ver = 2 /\ retval = 0) =>
        LET P == v2_getPageSize(g_image)
            total_pages == (last.off * 1024) \div P
            marked == {pg \in BitmapPages(g_image) : PageBit(g_image, pg) = 1}
        IN  /\ P = 256 => marked = {0, 1} /\ Header_free_pages(g_image) = total_pages - 2
            /\ P > 256 => marked = {0, 1, 2} /\ Header_free_pages(g_image) = total_pages - 3

(* the page that holds the byte at address a *)
PageOf(img, a) == a \div PageSize(img)

EntryAt(img, path) == lookup(img, path, FALSE).entry

(* the bytes of entry e2 of img2 after the name are those of entry e1 of *)
(* img1, and so are the flags: start page, size and timestamp are kept   *)
SameEntryButName(img1, e1, img2, e2) ==
    \A k \in {0} \cup (17 .. (ENTRY_SIZE - 1)) : Get(img2, e2 + k) = Get(img1, e1 + k)

(* the 32 bytes of the slot at e are zero *)
SlotIsZero(img, e) == \A k \in 0 .. (ENTRY_SIZE - 1) : Get(img, e + k) = 0

(* the content of the file at path, as a read of its whole size returns it *)
Content(img, path) == read(img, path, EntrySize(img, path), 0).rd

(* C23: a rename without EXCHANGE whose source resolves, whose destination *)
(* is absent and lies in another directory that exists and has a free slot *)
(* succeeds; afterwards the source does not resolve and its slot is all    *)
(* zero, the destination resolves to an entry with the source's flags,     *)
(* start page, size and timestamp and the new name, the content read back  *)
(* is the same, and the bitmap and free_pages are unchanged.               *)
C23_rename_across_directories ==
    [][(/\ last'.op = "rename"
        /\ last'.flags # RENAME_EXCHANGE
        /\ IsFile(g_image, last'.path)
        /\ dirname(last'.path) # dirname(last'.to)
        /\ ParentExists(g_image, last'.to)
        /\ ~TargetExists(g_image, last'.to)
        /\ FreeSlots(g_image, last'.to) # {})
       => (/\ halted' = ""
           /\ ret' = "OK"
           /\ EntryAt(g_image', last'.path) = 0
           /\ SlotIsZero(g_image', EntryAt(g_image, last'.path))
           /\ EntryAt(g_image', last'.to) # 0
           /\ SameEntryButName(g_image, EntryAt(g_image, last'.path),
                               g_image', EntryAt(g_image', last'.to))
           /\ HasName(g_image', EntryAt(g_image', last'.to), basename(last'.to))
           /\ Content(g_image', last'.to) = Content(g_image, last'.path)
           /\ HeaderState(g_image') = HeaderState(g_image))]_vars

(* /a/f has been moved to /b/g *)
C23_moved_to_other_directory ==
    /\ last.op = "rename" /\ ret = "OK"
    /\ last.path = Path_a_f /\ last.to = Path_b_g
    /\ nops = 1
    /\ TargetExists(g_image, Path_b_g) /\ ~TargetExists(g_image, Path_a_f)
    /\ EntrySize(g_image, Path_b_g) = 600

(* C24: a rename request fails with ENOENT when the source is missing or *)
(* when EXCHANGE is asked for and the destination is missing, with       *)
(* EEXIST when NOREPLACE is asked for and the destination exists, with   *)
(* EFAULT when EXCHANGE is asked for and both exist; each of these       *)
(* failures leaves the image as it was.                                  *)
C24_rename_errors ==
    [][last'.op = "rename" =>
        LET from == TargetExists(g_image, last'.path)
            to == TargetExists(g_image, last'.to)
            flags == last'.flags
            failed(errno) == halted' = "" /\ ret' = errno /\ g_image' = g_image
        IN  /\ ~from => failed("ENOENT")
            /\ (from /\ flags = RENAME_EXCHANGE /\ ~to) => failed("ENOENT")
            /\ (from /\ flags = RENAME_NOREPLACE /\ to) => failed("EEXIST")
            /\ (from /\ flags = RENAME_EXCHANGE /\ to) => failed("EFAULT")]_vars

(* a NOREPLACE rename of a file onto an existing file was refused *)
C24_rename_refused ==
    /\ last.op = "rename" /\ ret = "EEXIST" /\ last.flags = RENAME_NOREPLACE
    /\ TargetExists(g_image, last.path) /\ TargetExists(g_image, last.to)

(* the occupied entries of the directory of path that hold its last name *)
Namesakes(img, path) ==
    {e \in FinalDirSlots(img, path) : IsOccupied(img, e) /\ HasName(img, e, basename(path))}

(* C25: a rename without flags of an entry onto another path that is a     *)
(* regular file succeeds and frees every page of the chain the destination *)
(* had, free_pages growing by the length of that chain; afterwards the     *)
(* destination resolves to the source's start page and size, the source    *)
(* does not resolve, and one occupied entry of the destination directory   *)
(* holds the destination's name.                                           *)
C25_rename_over_existing_file ==
    [][(/\ last'.op = "rename"
        /\ last'.flags = 0
        /\ TargetExists(g_image, last'.path)
        /\ IsFile(g_image, last'.to))
       => LET from == EntryAt(g_image, last'.path)
              chain == Chain(g_image, EntryAt(g_image, last'.to))
              to == EntryAt(g_image', last'.to)
          IN  /\ halted' = ""
              /\ ret' = "OK"
              /\ \A pg \in chain : PageBit(g_image', pg) = 0
              /\ Header_free_pages(g_image') = Header_free_pages(g_image) + Cardinality(chain)
              /\ to # 0
              /\ StartPage(g_image', to) = StartPage(g_image, from)
              /\ EntrySize(g_image', last'.to) = EntrySize(g_image, last'.path)
              /\ ~TargetExists(g_image', last'.path)
              /\ Cardinality(Namesakes(g_image', last'.to)) = 1]_vars

(* /a/f has replaced /c, whose three pages were freed *)
C25_replaced_existing_file ==
    /\ last.op = "rename" /\ ret = "OK" /\ last.flags = 0
    /\ last.path = Path_a_f /\ last.to = Path_c
    /\ nops = 1
    /\ IsFile(g_image, Path_c) /\ ~TargetExists(g_image, Path_a_f)

(* C26: a successful rmdir changes one byte of the image, the flags of the *)
(* entry, which become 0: the page of the directory stays allocated and    *)
(* the bitmap and free_pages are as before; a successful mkdir lowers      *)
(* free_pages by one, so a mkdir followed by the rmdir of the directory    *)
(* leaves free_pages one lower than it was.                                *)
C26_rmdir_keeps_page ==
    [][(last'.op \in {"mkdir", "rmdir"} /\ halted' = "" /\ ret' = "OK")
       => IF last'.op = "rmdir"
          THEN LET entry == EntryAt(g_image, last'.path)
               IN  /\ g_image' = Put(g_image, entry, 0)
                   /\ PageBit(g_image', StartPage(g_image, entry)) = 1
                   /\ HeaderState(g_image') = HeaderState(g_image)
          ELSE Header_free_pages(g_image') = Header_free_pages(g_image) - 1]_vars

(* /d was made and removed: its slot is unoccupied and still names a page *)
(* that the bitmap marks allocated                                        *)
C26_removed_directory_holds_page ==
    /\ last.op = "rmdir" /\ ret = "OK" /\ last.path = Path_d
    /\ nops = 2
    /\ ~TargetExists(g_image, Path_d)
    /\ \E e \in FreeSlots(g_image, Path_d) :
           /\ HasName(g_image, e, basename(Path_d))
           /\ StartPage(g_image, e) # 0
           /\ PageBit(g_image, StartPage(g_image, e)) = 1

(* the entries of the partition table of a first sector that have the type *)
TypedEntries(mbr) ==
    {i \in 0 .. 3 : Get(mbr, PARTITION_TABLE_OFFSET + i * PARTITION_ENTRY_SIZE
                             + PARTITION_TYPE_OFFSET) = MAGIC}

(* C27: on a file of at least one sector, mbr_find_partition returns 1 with *)
(* offset = LBA * 512 and size = sector count * 512 of the first entry of  *)
(* type 0x5A when bytes 510 and 511 are 55 AA, which are the offset and    *)
(* the size given to mbr_create when it built the sector; without the      *)
(* signature it returns 1 with offset 0 and the size of the file when byte *)
(* 0 is 0x5A; in every other case it returns 0.                            *)
C27_partition_discovery ==
    (last.op = "mbr_find_partition" /\ last.file.size >= MBR_SIZE)
    => LET mbr == last.file.img
           signature == Get(mbr, 510) = 85 /\ Get(mbr, 511) = 170
           typed == TypedEntries(mbr)
           first == CHOOSE i \in typed : \A k \in typed : i <= k
           entry == PARTITION_TABLE_OFFSET + first * PARTITION_ENTRY_SIZE
       IN  IF signature /\ typed # {}
           THEN /\ retval = 1
                /\ last.off % SECTOR_SIZE = 0
                /\ last.off \div SECTOR_SIZE = Get32(mbr, entry + LBA_OFFSET)
                /\ img_size % SECTOR_SIZE = 0
                /\ img_size \div SECTOR_SIZE = Get32(mbr, entry + SECTOR_COUNT_OFFSET)
                /\ last.part # NoPart
                   => last.off = last.part.offset /\ img_size = last.part.size
           ELSE IF ~signature /\ Get(mbr, 0) = MAGIC
           THEN retval = 1 /\ last.off = 0 /\ img_size = last.file.size
           ELSE retval = 0

(* the image file once format has flushed the cache to it *)
FormattedFile == ImageFile(img_size, g_image)

(* C28: when a V2 image is initialised on a file that does not exist with *)
(* the mbr option set, the first sector of the file is an MBR: 55 AA at   *)
(* bytes 510 and 511, status 0 at byte 446 and type 0x5A at byte 450; the *)
(* file system is in the partition of that entry, behind the sector, and  *)
(* the program started again on the file finds the partition and passes   *)
(* the integrity check.                                                   *)
C28_mbr_option_makes_partition ==
    (last.op = "image_init" /\ ver = 2 /\ last.mbr /\ retval = 0)
    => LET file == FormattedFile
           part == mbr_find_partition(file)
       IN  /\ Get(file.img, 510) = 85 /\ Get(file.img, 511) = 170
           /\ Get(file.img, PARTITION_TABLE_OFFSET) = 0
           /\ Get(file.img, PARTITION_TABLE_OFFSET + PARTITION_TYPE_OFFSET) = MAGIC
           /\ part.found /\ part.offset >= MBR_SIZE
           /\ image_init(2, 0, file, NoUB).ret = 0

(* C29: zealfs_image_init of V1, started with a size of at most 64 KB, *)
(* does not return 1: a size is rejected only when it exceeds 64 KB.   *)
C29_v1_size_accepted ==
    (last.op = "image_init" /\ ver = 1 /\ last.off <= V1_MAX_KB) => retval # 1

(* C30: after a successful unlink or rmdir the 32 bytes of the slot the   *)
(* path resolved to are 0, and after a successful rename onto a path that *)
(* existed the slot that path resolved to is occupied or its 32 bytes are *)
(* 0.                                                                     *)
C30_released_slot_is_zero ==
    [][(halted' = "" /\ ret' = "OK")
       => /\ last'.op \in {"unlink", "rmdir"}
             => SlotIsZero(g_image', EntryAt(g_image, last'.path))
          /\ (last'.op = "rename" /\ TargetExists(g_image, last'.to))
             => LET tentry == EntryAt(g_image, last'.to)
                IN  IsOccupied(g_image', tentry) \/ SlotIsZero(g_image', tentry)]_vars

(* C31: after a successful unlink every page of the chain the file had is *)
(* free and its successor link is 0 (V1: byte 0 of the page; V2: the FAT  *)
(* slot of the page).                                                     *)
C31_unlink_clears_links ==
    [][(last'.op = "unlink" /\ halted' = "" /\ ret' = "OK")
       => \A pg \in Chain(g_image, EntryAt(g_image, last'.path)) :
              PageBit(g_image', pg) = 0 /\ NextPage(g_image', pg) = 0]_vars

(* the pages a step has allocated *)
NewPages(img1, img2) ==
    {pg \in BitmapPages(img2) : PageBit(img1, pg) = 0 /\ PageBit(img2, pg) = 1}

(* C32: a page that a write has allocated and linked to the chain has the *)
(* successor 0 when the write returns, or a page that the same write has  *)
(* allocated after it: its link is not what the page held before, and the *)
(* chain of the file ends at 0.                                           *)
C32_new_page_link_is_zero ==
    [][(last'.op = "write" /\ halted' = "" /\ ret' = "OK")
       => /\ \A pg \in NewPages(g_image, g_image') :
                \/ NextPage(g_image', pg) = 0
                \/ NextPage(g_image', pg) \in NewPages(g_image, g_image')
          /\ ChainEnds(g_image', StartPage(g_image', EntryAt(g_image', last'.path)), {})]_vars

(* the bytes of a page *)
PageBytes(img, page) == (page * PageSize(img)) .. (page * PageSize(img) + PageSize(img) - 1)

(* C33: after a successful create or mkdir every byte of the page of the *)
(* new entry is 0, and an rmdir of a directory just made succeeds.       *)
C33_new_page_is_zero ==
    [][(last'.op \in {"create", "mkdir"} /\ halted' = "" /\ ret' = "OK")
       => LET page == StartPage(g_image', EntryAt(g_image', last'.path))
          IN  /\ \A a \in PageBytes(g_image', page) : Get(g_image', a) = 0
              /\ last'.op = "mkdir" => rmdir(g_image', last'.path).ret = "OK"]_vars

(* C34: a request on a path whose parent component is a regular file does *)
(* not succeed and leaves the image as it was: the data of the file is    *)
(* not searched for the last name and no entry is made in it.             *)
C34_file_is_no_directory ==
    [][(last'.op # "init" /\ strrchr(last'.path) > 1 /\ IsFile(g_image, dirname(last'.path)))
       => ret' # "OK" /\ g_image' = g_image]_vars

(* the addresses at which two images differ *)
Changed(img1, img2) ==
    {a \in DOMAIN img1 \cup DOMAIN img2 : Get(img1, a) # Get(img2, a)}

(* what a write to the file of entry e may change, img being the image    *)
(* after the write: the pages of the chain of the file with their links,  *)
(* the size of the entry, the bitmap and free_pages                       *)
WriteFrame(img, e) ==
    LET chain == Chain(img, e)
        pages == UNION {PageBytes(img, pg) : pg \in chain}
        bitmap == {(IF ver = 1 THEN v1_pages_bitmap ELSE v2_pages_bitmap) + i :
                      i \in 0 .. (Header_bitmap_size(img) - 1)}
    IN  IF ver = 1
        THEN pages \cup bitmap \cup {v1_free_pages} \cup {e + v1_e_size, e + v1_e_size + 1}
        ELSE pages \cup bitmap \cup {v2_free_pages, v2_free_pages + 1}
             \cup {e + v2_e_size + k : k \in 0 .. 3}
             \cup UNION {{v2_fat_slot(img, pg), v2_fat_slot(img, pg) + 1} : pg \in chain}

(* C35: a successful write to a file changes bytes of the pages of the    *)
(* chain the file has afterwards, their links, the size of its entry, the *)
(* bitmap and free_pages, and nothing else; every other file reads back   *)
(* as before.                                                             *)
C35_write_frame ==
    [][(last'.op = "write" /\ halted' = "" /\ ret' = "OK")
       => /\ Changed(g_image, g_image') \subseteq WriteFrame(g_image', EntryAt(g_image, last'.path))
          /\ \A q \in Scope.paths \ {last'.path} :
                IsFile(g_image, q) => Content(g_image', q) = Content(g_image, q)]_vars

(* the 16 name bytes of an entry *)
NameOf(img, e) == [k \in 0 .. (NAME_MAX_LEN - 1) |-> Get(img, e + 1 + k)]

(* the directories of the image, each as the set of its slots *)
Directories(img) ==
    {RootSlots(img)} \cup {DirSlots(img, pg) : pg \in SubDirPages(img) \ {0}}

(* C36: no directory holds two occupied entries with the same name. *)
C36_names_are_unique ==
    \A slots \in Directories(g_image) :
        \A e1 \in slots, e2 \in slots :
            (e1 # e2 /\ IsOccupied(g_image, e1) /\ IsOccupied(g_image, e2))
            => NameOf(g_image, e1) # NameOf(g_image, e2)

(* C37: a rename that returns ENOMEM leaves the image as it was, and the *)
(* source still resolves under the path it had.                          *)
C37_nomem_changes_nothing ==
    [][(last'.op = "rename" /\ halted' = "" /\ ret' = "ENOMEM")
       => g_image' = g_image /\ TargetExists(g_image', last'.path)]_vars

(* C38: on every image the requests lead to, rename(p, p, 0) of a regular *)
(* file p returns 0 and leaves the entry occupied, the pages of its chain *)
(* allocated, free_pages as it was and the content of the file as it was. *)
C38_rename_onto_itself ==
    \A p \in Scope.paths :
        (halted = "" /\ IsFile(g_image, p))
        => LET r == rename(g_image, p, p, 0)
               entry == EntryAt(g_image, p)
           IN  /\ r.halt = "" /\ r.ret = "OK"
               /\ IsOccupied(r.img, entry)
               /\ \A pg \in Chain(g_image, entry) : PageBit(r.img, pg) = 1
               /\ Header_free_pages(r.img) = Header_free_pages(g_image)
               /\ IsFile(r.img, p) /\ Content(r.img, p) = Content(g_image, p)

(* C39: a create or mkdir that returns an error leaves the bitmap and *)
(* free_pages as they were, and every byte of every directory slot.   *)
C39_failed_create_changes_nothing ==
    [][(last'.op \in {"create", "mkdir"} /\ halted' = "" /\ ret' # "OK")
       => /\ HeaderState(g_image') = HeaderState(g_image)
          /\ \A e \in AllSlots(g_image) : \A k \in 0 .. (ENTRY_SIZE - 1) :
                Get(g_image', e + k) = Get(g_image, e + k)]_vars

(* the pages no entry may start at: the header page and the FAT pages *)
ReservedPages(img) ==
    IF ver = 1 THEN {0} ELSE IF PageSize(img) > 256 THEN {0, 1, 2} ELSE {0, 1}

(* C40: after a successful create or mkdir the start_page of the new entry *)
(* is the lowest page that was free before the call, and that page is      *)
(* marked allocated; no occupied entry starts at page 0 or at a FAT page.  *)
C40_start_page_is_allocated_page ==
    [][(halted' = "" /\ ZeroBits(g_image) # {})
       => LET lowest == CHOOSE pg \in ZeroBits(g_image) : \A x \in ZeroBits(g_image) : pg <= x
          IN  /\ (last'.op \in {"create", "mkdir"} /\ ret' = "OK")
                 => /\ StartPage(g_image', EntryAt(g_image', last'.path)) = lowest
                    /\ PageBit(g_image', lowest) = 1
              /\ \A e \in AllSlots(g_image') :
                    IsOccupied(g_image', e) => StartPage(g_image', e) \notin ReservedPages(g_image')]_vars

=============================================================================
